---- MODULE Spec2Model ----
(***************************************************************************)
(* Commute_Grapher: the sampling pipeline of routes_fetch_travel_time.py   *)
(* (choose_direction, fetch_coords, fetch_directions, _extract_route_info, *)
(* main) over the SQLite schema of db_init.py.                             *)
(*                                                                         *)
(* Text values that the code parses (DIRECTION, the localized texts of a   *)
(* route) are sequences of one-character strings, so that upper(), strip(),*)
(* split(), replace(), rstrip(), int() and float() are computed character  *)
(* by character.  Text values that the code only stores or compares        *)
(* (labels, addresses, descriptions, status) are TLA+ strings.             *)
(***************************************************************************)
EXTENDS Integers, Sequences, FiniteSets, TLC

\* ------------------------------------------------------------------ bounds
MaxRuns == 2          \* pipeline invocations in one behaviour
MaxRoutes == 2        \* routes in one routing response
MaxClock == 2         \* instants the UTC clock is seen to move on by in one behaviour

\* ------------------------------------------------------- python-level values
None == "None"        \* Python None / JSON null, where the other values are strings
Absent == "<absent>"  \* a key that is missing from a JSON object
NoText == <<Absent>>  \* a text field that is missing or null (no character is "<absent>")
Null == <<>>          \* SQL NULL / a missing number, where the other values are <<x>>
Raise == <<>>         \* the evaluation raised an exception; a value v is returned as <<v>>
Ok(v) == <<v>>

\* ----------------------------------------------------------- str operations
\* the characters str.isspace() holds for; those that have no escape in a
\* string are written by their names
Whitespace ==
  {" ", "\t", "\n", "\r", "\f", "<VT>", "<FS>", "<GS>", "<RS>", "<US>", "<NEL>", "<NBSP>",
   "<U+1680>", "<U+2000>", "<U+2001>", "<U+2002>", "<U+2003>", "<U+2004>", "<U+2005>",
   "<U+2006>", "<U+2007>", "<U+2008>", "<U+2009>", "<U+200A>", "<U+2028>", "<U+2029>",
   "<U+202F>", "<U+205F>", "<U+3000>"}

IsSpace(c) == c \in Whitespace

\* the whitespace int() and float() skip around a number: that of
\* str.isspace() without the separators U+001C to U+001F
IsNumberSpace(c) == IsSpace(c) /\ c \notin {"<FS>", "<GS>", "<RS>", "<US>"}

\* The characters of a text are the ASCII characters, written as they are,
\* and the whitespace and the digits that Unicode 14.0.0 has beyond them, written
\* by their code points.
\* the decimal digits beyond ASCII (category Nd), one row for each script with
\* its digits 0 to 9 in this order; int(), float() and str.isdigit() take them
UnicodeDigits ==
  <<
    <<"<U+0660>", "<U+0661>", "<U+0662>", "<U+0663>", "<U+0664>", "<U+0665>", "<U+0666>", "<U+0667>", "<U+0668>", "<U+0669>">>,
    <<"<U+06F0>", "<U+06F1>", "<U+06F2>", "<U+06F3>", "<U+06F4>", "<U+06F5>", "<U+06F6>", "<U+06F7>", "<U+06F8>", "<U+06F9>">>,
    <<"<U+07C0>", "<U+07C1>", "<U+07C2>", "<U+07C3>", "<U+07C4>", "<U+07C5>", "<U+07C6>", "<U+07C7>", "<U+07C8>", "<U+07C9>">>,
    <<"<U+0966>", "<U+0967>", "<U+0968>", "<U+0969>", "<U+096A>", "<U+096B>", "<U+096C>", "<U+096D>", "<U+096E>", "<U+096F>">>,
    <<"<U+09E6>", "<U+09E7>", "<U+09E8>", "<U+09E9>", "<U+09EA>", "<U+09EB>", "<U+09EC>", "<U+09ED>", "<U+09EE>", "<U+09EF>">>,
    <<"<U+0A66>", "<U+0A67>", "<U+0A68>", "<U+0A69>", "<U+0A6A>", "<U+0A6B>", "<U+0A6C>", "<U+0A6D>", "<U+0A6E>", "<U+0A6F>">>,
    <<"<U+0AE6>", "<U+0AE7>", "<U+0AE8>", "<U+0AE9>", "<U+0AEA>", "<U+0AEB>", "<U+0AEC>", "<U+0AED>", "<U+0AEE>", "<U+0AEF>">>,
    <<"<U+0B66>", "<U+0B67>", "<U+0B68>", "<U+0B69>", "<U+0B6A>", "<U+0B6B>", "<U+0B6C>", "<U+0B6D>", "<U+0B6E>", "<U+0B6F>">>,
    <<"<U+0BE6>", "<U+0BE7>", "<U+0BE8>", "<U+0BE9>", "<U+0BEA>", "<U+0BEB>", "<U+0BEC>", "<U+0BED>", "<U+0BEE>", "<U+0BEF>">>,
    <<"<U+0C66>", "<U+0C67>", "<U+0C68>", "<U+0C69>", "<U+0C6A>", "<U+0C6B>", "<U+0C6C>", "<U+0C6D>", "<U+0C6E>", "<U+0C6F>">>,
    <<"<U+0CE6>", "<U+0CE7>", "<U+0CE8>", "<U+0CE9>", "<U+0CEA>", "<U+0CEB>", "<U+0CEC>", "<U+0CED>", "<U+0CEE>", "<U+0CEF>">>,
    <<"<U+0D66>", "<U+0D67>", "<U+0D68>", "<U+0D69>", "<U+0D6A>", "<U+0D6B>", "<U+0D6C>", "<U+0D6D>", "<U+0D6E>", "<U+0D6F>">>,
    <<"<U+0DE6>", "<U+0DE7>", "<U+0DE8>", "<U+0DE9>", "<U+0DEA>", "<U+0DEB>", "<U+0DEC>", "<U+0DED>", "<U+0DEE>", "<U+0DEF>">>,
    <<"<U+0E50>", "<U+0E51>", "<U+0E52>", "<U+0E53>", "<U+0E54>", "<U+0E55>", "<U+0E56>", "<U+0E57>", "<U+0E58>", "<U+0E59>">>,
    <<"<U+0ED0>", "<U+0ED1>", "<U+0ED2>", "<U+0ED3>", "<U+0ED4>", "<U+0ED5>", "<U+0ED6>", "<U+0ED7>", "<U+0ED8>", "<U+0ED9>">>,
    <<"<U+0F20>", "<U+0F21>", "<U+0F22>", "<U+0F23>", "<U+0F24>", "<U+0F25>", "<U+0F26>", "<U+0F27>", "<U+0F28>", "<U+0F29>">>,
    <<"<U+1040>", "<U+1041>", "<U+1042>", "<U+1043>", "<U+1044>", "<U+1045>", "<U+1046>", "<U+1047>", "<U+1048>", "<U+1049>">>,
    <<"<U+1090>", "<U+1091>", "<U+1092>", "<U+1093>", "<U+1094>", "<U+1095>", "<U+1096>", "<U+1097>", "<U+1098>", "<U+1099>">>,
    <<"<U+17E0>", "<U+17E1>", "<U+17E2>", "<U+17E3>", "<U+17E4>", "<U+17E5>", "<U+17E6>", "<U+17E7>", "<U+17E8>", "<U+17E9>">>,
    <<"<U+1810>", "<U+1811>", "<U+1812>", "<U+1813>", "<U+1814>", "<U+1815>", "<U+1816>", "<U+1817>", "<U+1818>", "<U+1819>">>,
    <<"<U+1946>", "<U+1947>", "<U+1948>", "<U+1949>", "<U+194A>", "<U+194B>", "<U+194C>", "<U+194D>", "<U+194E>", "<U+194F>">>,
    <<"<U+19D0>", "<U+19D1>", "<U+19D2>", "<U+19D3>", "<U+19D4>", "<U+19D5>", "<U+19D6>", "<U+19D7>", "<U+19D8>", "<U+19D9>">>,
    <<"<U+1A80>", "<U+1A81>", "<U+1A82>", "<U+1A83>", "<U+1A84>", "<U+1A85>", "<U+1A86>", "<U+1A87>", "<U+1A88>", "<U+1A89>">>,
    <<"<U+1A90>", "<U+1A91>", "<U+1A92>", "<U+1A93>", "<U+1A94>", "<U+1A95>", "<U+1A96>", "<U+1A97>", "<U+1A98>", "<U+1A99>">>,
    <<"<U+1B50>", "<U+1B51>", "<U+1B52>", "<U+1B53>", "<U+1B54>", "<U+1B55>", "<U+1B56>", "<U+1B57>", "<U+1B58>", "<U+1B59>">>,
    <<"<U+1BB0>", "<U+1BB1>", "<U+1BB2>", "<U+1BB3>", "<U+1BB4>", "<U+1BB5>", "<U+1BB6>", "<U+1BB7>", "<U+1BB8>", "<U+1BB9>">>,
    <<"<U+1C40>", "<U+1C41>", "<U+1C42>", "<U+1C43>", "<U+1C44>", "<U+1C45>", "<U+1C46>", "<U+1C47>", "<U+1C48>", "<U+1C49>">>,
    <<"<U+1C50>", "<U+1C51>", "<U+1C52>", "<U+1C53>", "<U+1C54>", "<U+1C55>", "<U+1C56>", "<U+1C57>", "<U+1C58>", "<U+1C59>">>,
    <<"<U+A620>", "<U+A621>", "<U+A622>", "<U+A623>", "<U+A624>", "<U+A625>", "<U+A626>", "<U+A627>", "<U+A628>", "<U+A629>">>,
    <<"<U+A8D0>", "<U+A8D1>", "<U+A8D2>", "<U+A8D3>", "<U+A8D4>", "<U+A8D5>", "<U+A8D6>", "<U+A8D7>", "<U+A8D8>", "<U+A8D9>">>,
    <<"<U+A900>", "<U+A901>", "<U+A902>", "<U+A903>", "<U+A904>", "<U+A905>", "<U+A906>", "<U+A907>", "<U+A908>", "<U+A909>">>,
    <<"<U+A9D0>", "<U+A9D1>", "<U+A9D2>", "<U+A9D3>", "<U+A9D4>", "<U+A9D5>", "<U+A9D6>", "<U+A9D7>", "<U+A9D8>", "<U+A9D9>">>,
    <<"<U+A9F0>", "<U+A9F1>", "<U+A9F2>", "<U+A9F3>", "<U+A9F4>", "<U+A9F5>", "<U+A9F6>", "<U+A9F7>", "<U+A9F8>", "<U+A9F9>">>,
    <<"<U+AA50>", "<U+AA51>", "<U+AA52>", "<U+AA53>", "<U+AA54>", "<U+AA55>", "<U+AA56>", "<U+AA57>", "<U+AA58>", "<U+AA59>">>,
    <<"<U+ABF0>", "<U+ABF1>", "<U+ABF2>", "<U+ABF3>", "<U+ABF4>", "<U+ABF5>", "<U+ABF6>", "<U+ABF7>", "<U+ABF8>", "<U+ABF9>">>,
    <<"<U+FF10>", "<U+FF11>", "<U+FF12>", "<U+FF13>", "<U+FF14>", "<U+FF15>", "<U+FF16>", "<U+FF17>", "<U+FF18>", "<U+FF19>">>,
    <<"<U+104A0>", "<U+104A1>", "<U+104A2>", "<U+104A3>", "<U+104A4>", "<U+104A5>", "<U+104A6>", "<U+104A7>", "<U+104A8>", "<U+104A9>">>,
    <<"<U+10D30>", "<U+10D31>", "<U+10D32>", "<U+10D33>", "<U+10D34>", "<U+10D35>", "<U+10D36>", "<U+10D37>", "<U+10D38>", "<U+10D39>">>,
    <<"<U+11066>", "<U+11067>", "<U+11068>", "<U+11069>", "<U+1106A>", "<U+1106B>", "<U+1106C>", "<U+1106D>", "<U+1106E>", "<U+1106F>">>,
    <<"<U+110F0>", "<U+110F1>", "<U+110F2>", "<U+110F3>", "<U+110F4>", "<U+110F5>", "<U+110F6>", "<U+110F7>", "<U+110F8>", "<U+110F9>">>,
    <<"<U+11136>", "<U+11137>", "<U+11138>", "<U+11139>", "<U+1113A>", "<U+1113B>", "<U+1113C>", "<U+1113D>", "<U+1113E>", "<U+1113F>">>,
    <<"<U+111D0>", "<U+111D1>", "<U+111D2>", "<U+111D3>", "<U+111D4>", "<U+111D5>", "<U+111D6>", "<U+111D7>", "<U+111D8>", "<U+111D9>">>,
    <<"<U+112F0>", "<U+112F1>", "<U+112F2>", "<U+112F3>", "<U+112F4>", "<U+112F5>", "<U+112F6>", "<U+112F7>", "<U+112F8>", "<U+112F9>">>,
    <<"<U+11450>", "<U+11451>", "<U+11452>", "<U+11453>", "<U+11454>", "<U+11455>", "<U+11456>", "<U+11457>", "<U+11458>", "<U+11459>">>,
    <<"<U+114D0>", "<U+114D1>", "<U+114D2>", "<U+114D3>", "<U+114D4>", "<U+114D5>", "<U+114D6>", "<U+114D7>", "<U+114D8>", "<U+114D9>">>,
    <<"<U+11650>", "<U+11651>", "<U+11652>", "<U+11653>", "<U+11654>", "<U+11655>", "<U+11656>", "<U+11657>", "<U+11658>", "<U+11659>">>,
    <<"<U+116C0>", "<U+116C1>", "<U+116C2>", "<U+116C3>", "<U+116C4>", "<U+116C5>", "<U+116C6>", "<U+116C7>", "<U+116C8>", "<U+116C9>">>,
    <<"<U+11730>", "<U+11731>", "<U+11732>", "<U+11733>", "<U+11734>", "<U+11735>", "<U+11736>", "<U+11737>", "<U+11738>", "<U+11739>">>,
    <<"<U+118E0>", "<U+118E1>", "<U+118E2>", "<U+118E3>", "<U+118E4>", "<U+118E5>", "<U+118E6>", "<U+118E7>", "<U+118E8>", "<U+118E9>">>,
    <<"<U+11950>", "<U+11951>", "<U+11952>", "<U+11953>", "<U+11954>", "<U+11955>", "<U+11956>", "<U+11957>", "<U+11958>", "<U+11959>">>,
    <<"<U+11C50>", "<U+11C51>", "<U+11C52>", "<U+11C53>", "<U+11C54>", "<U+11C55>", "<U+11C56>", "<U+11C57>", "<U+11C58>", "<U+11C59>">>,
    <<"<U+11D50>", "<U+11D51>", "<U+11D52>", "<U+11D53>", "<U+11D54>", "<U+11D55>", "<U+11D56>", "<U+11D57>", "<U+11D58>", "<U+11D59>">>,
    <<"<U+11DA0>", "<U+11DA1>", "<U+11DA2>", "<U+11DA3>", "<U+11DA4>", "<U+11DA5>", "<U+11DA6>", "<U+11DA7>", "<U+11DA8>", "<U+11DA9>">>,
    <<"<U+16A60>", "<U+16A61>", "<U+16A62>", "<U+16A63>", "<U+16A64>", "<U+16A65>", "<U+16A66>", "<U+16A67>", "<U+16A68>", "<U+16A69>">>,
    <<"<U+16AC0>", "<U+16AC1>", "<U+16AC2>", "<U+16AC3>", "<U+16AC4>", "<U+16AC5>", "<U+16AC6>", "<U+16AC7>", "<U+16AC8>", "<U+16AC9>">>,
    <<"<U+16B50>", "<U+16B51>", "<U+16B52>", "<U+16B53>", "<U+16B54>", "<U+16B55>", "<U+16B56>", "<U+16B57>", "<U+16B58>", "<U+16B59>">>,
    <<"<U+1D7CE>", "<U+1D7CF>", "<U+1D7D0>", "<U+1D7D1>", "<U+1D7D2>", "<U+1D7D3>", "<U+1D7D4>", "<U+1D7D5>", "<U+1D7D6>", "<U+1D7D7>">>,
    <<"<U+1D7D8>", "<U+1D7D9>", "<U+1D7DA>", "<U+1D7DB>", "<U+1D7DC>", "<U+1D7DD>", "<U+1D7DE>", "<U+1D7DF>", "<U+1D7E0>", "<U+1D7E1>">>,
    <<"<U+1D7E2>", "<U+1D7E3>", "<U+1D7E4>", "<U+1D7E5>", "<U+1D7E6>", "<U+1D7E7>", "<U+1D7E8>", "<U+1D7E9>", "<U+1D7EA>", "<U+1D7EB>">>,
    <<"<U+1D7EC>", "<U+1D7ED>", "<U+1D7EE>", "<U+1D7EF>", "<U+1D7F0>", "<U+1D7F1>", "<U+1D7F2>", "<U+1D7F3>", "<U+1D7F4>", "<U+1D7F5>">>,
    <<"<U+1D7F6>", "<U+1D7F7>", "<U+1D7F8>", "<U+1D7F9>", "<U+1D7FA>", "<U+1D7FB>", "<U+1D7FC>", "<U+1D7FD>", "<U+1D7FE>", "<U+1D7FF>">>,
    <<"<U+1E140>", "<U+1E141>", "<U+1E142>", "<U+1E143>", "<U+1E144>", "<U+1E145>", "<U+1E146>", "<U+1E147>", "<U+1E148>", "<U+1E149>">>,
    <<"<U+1E2F0>", "<U+1E2F1>", "<U+1E2F2>", "<U+1E2F3>", "<U+1E2F4>", "<U+1E2F5>", "<U+1E2F6>", "<U+1E2F7>", "<U+1E2F8>", "<U+1E2F9>">>,
    <<"<U+1E950>", "<U+1E951>", "<U+1E952>", "<U+1E953>", "<U+1E954>", "<U+1E955>", "<U+1E956>", "<U+1E957>", "<U+1E958>", "<U+1E959>">>,
    <<"<U+1FBF0>", "<U+1FBF1>", "<U+1FBF2>", "<U+1FBF3>", "<U+1FBF4>", "<U+1FBF5>", "<U+1FBF6>", "<U+1FBF7>", "<U+1FBF8>", "<U+1FBF9>">>
  >>

\* the other characters str.isdigit() holds for (superscripts, subscripts,
\* circled digits, ...): int() and float() do not take them
OtherDigits ==
  {
   "<U+00B2>", "<U+00B3>", "<U+00B9>", "<U+1369>", "<U+136A>", "<U+136B>", "<U+136C>",
   "<U+136D>", "<U+136E>", "<U+136F>", "<U+1370>", "<U+1371>", "<U+19DA>", "<U+2070>",
   "<U+2074>", "<U+2075>", "<U+2076>", "<U+2077>", "<U+2078>", "<U+2079>", "<U+2080>",
   "<U+2081>", "<U+2082>", "<U+2083>", "<U+2084>", "<U+2085>", "<U+2086>", "<U+2087>",
   "<U+2088>", "<U+2089>", "<U+2460>", "<U+2461>", "<U+2462>", "<U+2463>", "<U+2464>",
   "<U+2465>", "<U+2466>", "<U+2467>", "<U+2468>", "<U+2474>", "<U+2475>", "<U+2476>",
   "<U+2477>", "<U+2478>", "<U+2479>", "<U+247A>", "<U+247B>", "<U+247C>", "<U+2488>",
   "<U+2489>", "<U+248A>", "<U+248B>", "<U+248C>", "<U+248D>", "<U+248E>", "<U+248F>",
   "<U+2490>", "<U+24EA>", "<U+24F5>", "<U+24F6>", "<U+24F7>", "<U+24F8>", "<U+24F9>",
   "<U+24FA>", "<U+24FB>", "<U+24FC>", "<U+24FD>", "<U+24FF>", "<U+2776>", "<U+2777>",
   "<U+2778>", "<U+2779>", "<U+277A>", "<U+277B>", "<U+277C>", "<U+277D>", "<U+277E>",
   "<U+2780>", "<U+2781>", "<U+2782>", "<U+2783>", "<U+2784>", "<U+2785>", "<U+2786>",
   "<U+2787>", "<U+2788>", "<U+278A>", "<U+278B>", "<U+278C>", "<U+278D>", "<U+278E>",
   "<U+278F>", "<U+2790>", "<U+2791>", "<U+2792>", "<U+10A40>", "<U+10A41>",
   "<U+10A42>", "<U+10A43>", "<U+10E60>", "<U+10E61>", "<U+10E62>", "<U+10E63>",
   "<U+10E64>", "<U+10E65>", "<U+10E66>", "<U+10E67>", "<U+10E68>", "<U+11052>",
   "<U+11053>", "<U+11054>", "<U+11055>", "<U+11056>", "<U+11057>", "<U+11058>",
   "<U+11059>", "<U+1105A>", "<U+1F100>", "<U+1F101>", "<U+1F102>", "<U+1F103>",
   "<U+1F104>", "<U+1F105>", "<U+1F106>", "<U+1F107>", "<U+1F108>", "<U+1F109>",
   "<U+1F10A>"}

AsciiDigits == {"0", "1", "2", "3", "4", "5", "6", "7", "8", "9"}

\* a digit of int() and float(): str.isdecimal()
IsDigit(c) ==
  \/ c \in AsciiDigits
  \/ \E r \in 1..Len(UnicodeDigits), v \in 1..10 : UnicodeDigits[r][v] = c

\* its value
DigitVal(c) ==
  CASE c = "0" -> 0 [] c = "1" -> 1 [] c = "2" -> 2 [] c = "3" -> 3
    [] c = "4" -> 4 [] c = "5" -> 5 [] c = "6" -> 6 [] c = "7" -> 7
    [] c = "8" -> 8 [] c = "9" -> 9
    [] OTHER ->
         (CHOOSE v \in 1..10 : \E r \in 1..Len(UnicodeDigits) : UnicodeDigits[r][v] = c) - 1

LowerLetters ==
  <<"a", "b", "c", "d", "e", "f", "g", "h", "i", "j", "k", "l", "m",
    "n", "o", "p", "q", "r", "s", "t", "u", "v", "w", "x", "y", "z">>

UpperLetters ==
  <<"A", "B", "C", "D", "E", "F", "G", "H", "I", "J", "K", "L", "M",
    "N", "O", "P", "Q", "R", "S", "T", "U", "V", "W", "X", "Y", "Z">>

\* str.upper() of one character: a letter of a-z has its capital, the other
\* characters of the texts have no upper case
UpperChar(c) ==
  IF \E i \in 1..26 : LowerLetters[i] = c
  THEN UpperLetters[CHOOSE i \in 1..26 : LowerLetters[i] = c]
  ELSE c

upper(s) == [i \in 1..Len(s) |-> UpperChar(s[i])]

RECURSIVE lstrip(_)
lstrip(s) == IF s # <<>> /\ IsSpace(s[1]) THEN lstrip(Tail(s)) ELSE s

RECURSIVE rstrip_space(_)
rstrip_space(s) ==
  IF s # <<>> /\ IsSpace(s[Len(s)]) THEN rstrip_space(SubSeq(s, 1, Len(s) - 1)) ELSE s

\* str.strip()
strip(s) == rstrip_space(lstrip(s))

\* a text without the whitespace that int() and float() skip at its ends
RECURSIVE number_strip(_)
number_strip(s) ==
  IF s # <<>> /\ IsNumberSpace(s[1]) THEN number_strip(Tail(s))
  ELSE IF s # <<>> /\ IsNumberSpace(s[Len(s)])
       THEN number_strip(SubSeq(s, 1, Len(s) - 1))
       ELSE s

\* str.rstrip(chars) for a one-character argument
RECURSIVE rstrip(_, _)
rstrip(s, c) ==
  IF s # <<>> /\ s[Len(s)] = c THEN rstrip(SubSeq(s, 1, Len(s) - 1), c) ELSE s

\* str.replace(c, "")
RECURSIVE remove_char(_, _)
remove_char(s, c) ==
  IF s = <<>> THEN <<>>
  ELSE IF s[1] = c THEN remove_char(Tail(s), c)
       ELSE <<s[1]>> \o remove_char(Tail(s), c)

RECURSIVE TakeToken(_)
TakeToken(s) ==
  IF s = <<>> \/ IsSpace(s[1]) THEN <<>> ELSE <<s[1]>> \o TakeToken(Tail(s))

\* str.split()[0]: the first whitespace-separated token; <<>> stands for the
\* IndexError of an empty split() result (a token is never empty)
split_first(s) == TakeToken(lstrip(s))

\* a digit group of a Python numeric literal: digits, with single underscores
\* allowed between digits only
IsDigitGroup(s) ==
  /\ s # <<>>
  /\ IsDigit(s[1]) /\ IsDigit(s[Len(s)])
  /\ \A i \in 1..Len(s) : IsDigit(s[i]) \/ s[i] = "_"
  /\ \A i \in 1..(Len(s) - 1) : ~(s[i] = "_" /\ s[i + 1] = "_")

RECURSIVE DigitsValue(_)
DigitsValue(s) ==
  IF s = <<>> THEN 0
  ELSE IF s[Len(s)] = "_" THEN DigitsValue(SubSeq(s, 1, Len(s) - 1))
       ELSE 10 * DigitsValue(SubSeq(s, 1, Len(s) - 1)) + DigitVal(s[Len(s)])

HasSign(s) == s # <<>> /\ s[1] \in {"+", "-"}

Unsigned(s) == IF HasSign(s) THEN Tail(s) ELSE s

Signed(s, n) == IF HasSign(s) /\ s[1] = "-" THEN 0 - n ELSE n

\* int(str): surrounding whitespace and a sign are accepted; Raise is ValueError
int_str(s0) ==
  LET s == number_strip(s0) IN
    IF IsDigitGroup(Unsigned(s)) THEN Ok(Signed(s, DigitsValue(Unsigned(s)))) ELSE Raise

DotAt(s) == IF \E i \in 1..Len(s) : s[i] = "."
            THEN CHOOSE i \in 1..Len(s) : s[i] = "." /\ \A j \in 1..(i - 1) : s[j] # "."
            ELSE 0

\* the value m / 10^e of a decimal literal, with m not a multiple of 10
RECURSIVE Normalize(_)
Normalize(d) ==
  IF d.m = 0 THEN [m |-> 0, e |-> 0]
  ELSE IF d.m % 10 = 0 THEN Normalize([m |-> d.m \div 10, e |-> d.e - 1]) ELSE d

DigitCount(s) == Cardinality({i \in 1..Len(s) : IsDigit(s[i])})

RECURSIVE StripZeros(_)
StripZeros(s) ==
  IF s # <<>> /\ IsDigit(s[1]) /\ DigitVal(s[1]) = 0 THEN StripZeros(Tail(s)) ELSE s

\* 0.a >= 0.b for two sequences of digits
RECURSIVE DigitsGE(_, _)
DigitsGE(a, b) ==
  IF b = <<>> THEN TRUE
  ELSE IF a = <<>> THEN \A i \in 1..Len(b) : DigitVal(b[i]) = 0
  ELSE IF DigitVal(a[1]) # DigitVal(b[1]) THEN DigitVal(a[1]) > DigitVal(b[1])
  ELSE DigitsGE(Tail(a), Tail(b))

\* the first digits of the least decimal that float() rounds to inf,
\* 0.1797...e309, and of the greatest that it rounds to 0.0, 0.2470...e-323
InfFrom ==
  <<"1", "7", "9", "7", "6", "9", "3", "1", "3", "4", "8", "6", "2", "3", "1", "5", "8",
    "0", "7", "9", "4">>

ZeroUpTo ==
  <<"2", "4", "7", "0", "3", "2", "8", "2", "2", "9", "2", "0", "6", "2", "3", "2", "7",
    "2", "0", "8", "8">>

ExpAt(s) == IF \E i \in 1..Len(s) : s[i] \in {"e", "E"}
            THEN CHOOSE i \in 1..Len(s) :
                   s[i] \in {"e", "E"} /\ \A j \in 1..(i - 1) : s[j] \notin {"e", "E"}
            ELSE 0

PosInf == [special |-> "inf"]
NegInf == [special |-> "-inf"]
NaN == [special |-> "nan"]

\* float(str), Raise being ValueError.  The float is inf, -inf, nan or the
\* value m / 10^e of the literal as the record [m, e] (the rounding of a
\* literal of more than 15 significant digits to the nearest float is not
\* computed).  The literal is taken apart from the outside in:
\*   sign, then the words inf / infinity / nan, then mantissa and exponent,
\*   then the integer and fraction digits of the mantissa.
\* the float of the significant digits, order being the power of ten of
\* 0.digits and e the number of decimals of the integer m of these digits
FloatRounded(neg, digits, order, e) ==
  IF digits = <<>> THEN Ok([m |-> 0, e |-> 0])
  ELSE IF order > 309 \/ (order = 309 /\ DigitsGE(digits, InfFrom))
  THEN Ok(IF neg THEN NegInf ELSE PosInf)
  ELSE IF order < -323 \/ (order = -323 /\ DigitsGE(ZeroUpTo, digits))
  THEN Ok([m |-> 0, e |-> 0])
  ELSE Ok(Normalize([m |-> IF neg THEN 0 - DigitsValue(digits) ELSE DigitsValue(digits),
                     e |-> e]))

\* digits: the significant digits; frac: how many of them follow the point;
\* ex: the exponent
FloatScaled(neg, digits, frac, ex) ==
  FloatRounded(neg, digits, Len(digits) - frac + ex, frac - ex)

\* ip, fp: the digit groups before and after the point; expo: the text after
\* e or E when has_exp
FloatDecimal(neg, ip, fp, expo, has_exp) ==
  IF /\ ip # <<>> \/ fp # <<>>
     /\ ip = <<>> \/ IsDigitGroup(ip)
     /\ fp = <<>> \/ IsDigitGroup(fp)
     /\ ~has_exp \/ IsDigitGroup(Unsigned(expo))
  THEN FloatScaled(neg, StripZeros(remove_char(ip, "_") \o remove_char(fp, "_")),
                   DigitCount(fp),
                   IF has_exp THEN Signed(expo, DigitsValue(Unsigned(expo))) ELSE 0)
  ELSE Raise

\* k: the place of the point in the mantissa, or 0
FloatMantissa(neg, mant, k, expo, has_exp) ==
  FloatDecimal(neg,
               IF k = 0 THEN mant ELSE SubSeq(mant, 1, k - 1),
               IF k = 0 THEN <<>> ELSE SubSeq(mant, k + 1, Len(mant)),
               expo, has_exp)

\* x: the place of e or E in the unsigned literal u, or 0
FloatExponent(neg, u, x) ==
  FloatMantissa(neg,
                IF x = 0 THEN u ELSE SubSeq(u, 1, x - 1),
                DotAt(IF x = 0 THEN u ELSE SubSeq(u, 1, x - 1)),
                IF x = 0 THEN <<>> ELSE SubSeq(u, x + 1, Len(u)),
                x # 0)

FloatUnsigned(neg, u, word) ==
  IF word \in {<<"I", "N", "F">>, <<"I", "N", "F", "I", "N", "I", "T", "Y">>}
  THEN Ok(IF neg THEN NegInf ELSE PosInf)
  ELSE IF word = <<"N", "A", "N">> THEN Ok(NaN)
  ELSE FloatExponent(neg, u, ExpAt(u))

FloatSigned(neg, u) == FloatUnsigned(neg, u, [i \in 1..Len(u) |-> UpperChar(u[i])])

FloatStripped(s) == FloatSigned(HasSign(s) /\ s[1] = "-", Unsigned(s))

float_str(s0) == FloatStripped(number_strip(s0))

\* ------------------------------------------------------- choose_direction
\* datetime.time values are <<hour, minute, second, microsecond>>, compared as
\* Python does
dtime(h, m) == <<h, m, 0, 0>>

TimeLE(a, b) ==
  \/ a[1] < b[1]
  \/ a[1] = b[1] /\ a[2] < b[2]
  \/ a[1] = b[1] /\ a[2] = b[2] /\ a[3] < b[3]
  \/ a[1] = b[1] /\ a[2] = b[2] /\ a[3] = b[3] /\ a[4] <= b[4]

\* variant: the end of the window is excluded
_in_window_open(now_t, start, end) == TimeLE(start, now_t) /\ ~TimeLE(end, now_t)

_in_window(now_t, start, end) == TimeLE(start, now_t) /\ TimeLE(now_t, end)

H2W == <<"H", "2", "W">>
W2H == <<"W", "2", "H">>

\* variant: DIRECTION is compared as it is, without upper() and strip()
choose_direction_raw(direction_env, now_t) ==
  IF direction_env \in {H2W, W2H}
  THEN IF direction_env = H2W THEN <<"HOME", "WORK">> ELSE <<"WORK", "HOME">>
  ELSE IF _in_window(now_t, dtime(5, 30), dtime(10, 30)) THEN <<"HOME", "WORK">>
  ELSE IF _in_window(now_t, dtime(10, 40), dtime(18, 30)) THEN <<"WORK", "HOME">>
  ELSE <<None, None>>

\* choose_direction() for DIRECTION = direction_env and local time now_t
choose_direction(direction_env, now_t) ==
  LET override == strip(upper(direction_env)) IN
    IF override \in {H2W, W2H}
    THEN IF override = H2W THEN <<"HOME", "WORK">> ELSE <<"WORK", "HOME">>
    ELSE IF _in_window(now_t, dtime(5, 30), dtime(10, 30)) THEN <<"HOME", "WORK">>
    ELSE IF _in_window(now_t, dtime(10, 40), dtime(18, 30)) THEN <<"WORK", "HOME">>
    ELSE <<None, None>>

\* ---------------------------------------------------- _extract_route_info
\* A raw route of the routing response: description is a string, None or
\* Absent; distanceMeters is <<n>> or Null; distance, staticDuration and
\* duration_text (localizedValues.<key>.text) and duration are texts or NoText.
_to_int_minutes(s) ==
  IF s = NoText THEN Raise
  ELSE LET tok == split_first(s) IN
         IF tok = <<>> THEN Raise ELSE int_str(remove_char(tok, ","))

\* float(miles_text.split()[0].replace(",", ""))
to_miles(s) ==
  IF s = NoText THEN Raise
  ELSE LET tok == split_first(s) IN
         IF tok = <<>> THEN Raise ELSE float_str(remove_char(tok, ","))

\* int(duration_seconds_str.rstrip("s"))
to_seconds(s) == IF s = NoText THEN Raise ELSE int_str(rstrip(s, "s"))

\* int(route.get("distanceMeters")): a missing key gives int(None), a TypeError
to_meters(v) == IF v = Null THEN Raise ELSE v

_extract_route_info(route) ==
  LET meters == to_meters(route.distanceMeters)
      miles == to_miles(route.distance)
      duration_seconds == to_seconds(route.duration)
      duration_static == _to_int_minutes(route.staticDuration)
      duration_minutes == _to_int_minutes(route.duration_text)
  IN IF \/ route.description = Absent
        \/ Raise \in {meters, duration_seconds, duration_static, duration_minutes}
        \/ miles = Raise
     THEN Raise
     ELSE Ok([description |-> route.description,
              meters |-> meters[1],
              miles |-> miles[1],
              duration_seconds |-> duration_seconds[1],
              duration_static |-> duration_static[1],
              duration_minutes |-> duration_minutes[1]])

\* ------------------------------------------------------- fetch_directions
\* variant: an empty list of routes is let through
RoutesMissing_never(data) == FALSE

\* not data.get("routes")
RoutesMissing(data) == data.routes = <<>>

\* variant: a route that cannot be extracted is left out of the results
fetch_directions_skip(resp) ==
  IF ~resp.ok THEN [ret |-> Raise, error |-> "upstream"]
  ELSE IF RoutesMissing(resp) THEN [ret |-> Raise, error |-> "upstream"]
  ELSE LET infos == [i \in 1..Len(resp.routes) |-> _extract_route_info(resp.routes[i])]
           kept == SelectSeq(infos, LAMBDA x : x # Raise)
       IN [ret |-> Ok([i \in 1..Len(kept) |-> kept[i][1]]), error |-> None]

\* fetch_directions for the routing response resp (ok: r.ok; routes: the list
\* under "routes", <<>> also when the key is missing): the extracted results
\* or Raise, and the class of the exception raised
fetch_directions(resp) ==
  IF ~resp.ok THEN [ret |-> Raise, error |-> "upstream"]
  ELSE IF RoutesMissing(resp) THEN [ret |-> Raise, error |-> "upstream"]
  ELSE LET infos == [i \in 1..Len(resp.routes) |-> _extract_route_info(resp.routes[i])]
       IN IF \E i \in 1..Len(infos) : infos[i] = Raise
          THEN [ret |-> Raise, error |-> "parse"]
          ELSE [ret |-> Ok([i \in 1..Len(infos) |-> infos[i][1]]), error |-> None]

\* ------------------------------------------------------------ fetch_coords
\* locations rows are [id, label, address, lat, lon]; lat and lon are <<x>> or
\* Null.  cur.fetchone() of the SELECT by label: <<row>>, or <<>> for no row
LocationRow(locs, label) ==
  IF \E r \in locs : r.label = label THEN <<CHOOSE r \in locs : r.label = label>> ELSE <<>>

NextLocationId(locs) ==
  IF locs = {} THEN 1 ELSE 1 + (CHOOSE n \in {r.id : r \in locs} : \A r \in locs : r.id <= n)

\* variant: a plain INSERT, without the ON CONFLICT clause and the constraint
Upsert_insert(locs, label, address, lat, lon) ==
  locs \cup {[id |-> NextLocationId(locs), label |-> label, address |-> address,
            lat |-> lat, lon |-> lon]}

\* variant: on conflict only the coordinates are updated
Upsert_keep_address(locs, label, address, lat, lon) ==
  IF \E r \in locs : r.label = label
  THEN {IF r.label = label THEN [r EXCEPT !.lat = lat, !.lon = lon] ELSE r : r \in locs}
  ELSE locs \cup {[id |-> NextLocationId(locs), label |-> label, address |-> address,
                   lat |-> lat, lon |-> lon]}

\* INSERT INTO locations ... ON CONFLICT(label) DO UPDATE SET address, lat, lon
Upsert(locs, label, address, lat, lon) ==
  IF \E r \in locs : r.label = label
  THEN {IF r.label = label
        THEN [r EXCEPT !.address = address, !.lat = lat, !.lon = lon] ELSE r : r \in locs}
  ELSE locs \cup {[id |-> NextLocationId(locs), label |-> label, address |-> address,
                   lat |-> lat, lon |-> lon]}

\* variant: the stored coordinates are never used
Cached_never(row) == FALSE

Cached(row) == row # <<>> /\ row[1].lat # Null /\ row[1].lon # Null

\* variant: the status of the response is not looked at
GeocodeFailed_results(data) == data.results = <<>>

GeocodeFailed(data) == data.status # "OK" \/ data.results = <<>>

\* variant: stored coordinates are used only when the stored address is the
\* address given
fetch_coords_lookup_by_address(locs, label, address) ==
  LET row == LocationRow(locs, label) IN
    IF Cached(row) /\ row[1].address = address
    THEN Ok(<<row[1].lat[1], row[1].lon[1]>>)
    ELSE <<>>

\* fetch_coords(label, address), lines 38-45, on the table locs: the stored
\* (lat, lon) that the function returns at line 45, or <<>> when it goes on to
\* the geocoding request
fetch_coords_lookup(locs, label, address) ==
  LET row == LocationRow(locs, label) IN
    IF Cached(row)
    THEN Ok(<<row[1].lat[1], row[1].lon[1]>>)
    ELSE <<>>

\* variant: a failed geocoding request is sent a second time
fetch_coords_geocode_retry(locs, label, address, resp, db_ok) ==
  IF ~resp.http_ok \/ GeocodeFailed(resp)
  THEN [ret |-> Raise, locations |-> locs, requests |-> 2,
        closed |-> FALSE, error |-> "resolution"]
  ELSE IF ~db_ok
  THEN [ret |-> Raise, locations |-> locs, requests |-> 1,
        closed |-> FALSE, error |-> "storage"]
  ELSE LET loc == resp.results[1] IN
         [ret |-> Ok(<<loc.lat, loc.lng>>),
          locations |-> Upsert(locs, label, address, <<loc.lat>>, <<loc.lng>>),
          requests |-> 1, closed |-> TRUE, error |-> None]

\* variant: the row is written before the response is examined
fetch_coords_geocode_early(locs, label, address, resp, db_ok) ==
  IF ~resp.http_ok \/ GeocodeFailed(resp)
  THEN [ret |-> Raise, locations |-> Upsert(locs, label, address, Null, Null),
        requests |-> 1, closed |-> FALSE, error |-> "resolution"]
  ELSE IF ~db_ok
  THEN [ret |-> Raise, locations |-> locs, requests |-> 1,
        closed |-> FALSE, error |-> "storage"]
  ELSE LET loc == resp.results[1] IN
         [ret |-> Ok(<<loc.lat, loc.lng>>),
          locations |-> Upsert(locs, label, address, <<loc.lat>>, <<loc.lng>>),
          requests |-> 1, closed |-> TRUE, error |-> None]

\* fetch_coords(label, address), lines 47-66, once the geocoding request has
\* its response resp: locs is the table at that time, and the storage layer
\* accepts the write (db_ok) or not.
\*   ret: the returned (lat, lon) or Raise;  requests: geocoding requests sent;
\*   closed: whether con.close() was reached;  error: class of the exception
fetch_coords_geocode(locs, label, address, resp, db_ok) ==
  IF ~resp.http_ok \/ GeocodeFailed(resp)
  THEN [ret |-> Raise, locations |-> locs, requests |-> 1,
        closed |-> FALSE, error |-> "resolution"]
  ELSE IF ~db_ok
  THEN [ret |-> Raise, locations |-> locs, requests |-> 1,
        closed |-> FALSE, error |-> "storage"]
  ELSE LET loc == resp.results[1] IN
         [ret |-> Ok(<<loc.lat, loc.lng>>),
          locations |-> Upsert(locs, label, address, <<loc.lat>>, <<loc.lng>>),
          requests |-> 1, closed |-> TRUE, error |-> None]

\* ------------------------------------------------------------ environment
\* HOME_LABEL, HOME_ADDRESS, WORK_LABEL, WORK_ADDRESS as read from the
\* environment at import; the home address differs between the two
Configs ==
  {[HOME_LABEL |-> "Home", HOME_ADDRESS |-> "1 Main St",
    WORK_LABEL |-> "Work", WORK_ADDRESS |-> "9 Office Rd"],
   [HOME_LABEL |-> "Home", HOME_ADDRESS |-> "2 Side St",
    WORK_LABEL |-> "Work", WORK_ADDRESS |-> "9 Office Rd"]}

Labels == {c.HOME_LABEL : c \in Configs} \cup {c.WORK_LABEL : c \in Configs}

\* DIRECTION and the local time of an invocation: unset just before the first
\* window, unset in the first window, forced (lower case, trailing blank)
Settings ==
  {[DIRECTION |-> <<>>, now |-> <<5, 29, 59, 999999>>],
   [DIRECTION |-> <<>>, now |-> <<5, 30, 0, 0>>],
   [DIRECTION |-> <<"w", "2", "h", " ">>, now |-> <<5, 29, 59, 999999>>]}

\* the environments an invocation is started in: DIRECTION unset with either
\* home address, DIRECTION set with the first
Environments ==
  {e \in {[DIRECTION |-> st.DIRECTION, now |-> st.now, cfg |-> cfg] :
            st \in Settings, cfg \in Configs} :
     e.DIRECTION = <<>> \/ e.cfg.HOME_ADDRESS = "1 Main St"}

\* where the geocoding service finds an address (a second match it may list
\* after it is at latitude 0, longitude 0)
GeoLocation(address) ==
  CASE address = "1 Main St" -> [lat |-> 40, lng |-> -74]
    [] address = "2 Side St" -> [lat |-> 41, lng |-> -75]
    [] OTHER -> [lat |-> 42, lng |-> -76]

\* geocoding responses for an address: r.raise_for_status() raises
\* (http_ok = FALSE), or the JSON body has "status" and "results", a list of
\* geometry.location objects
GeoResponses(address) ==
  {[http_ok |-> FALSE, status |-> Absent, results |-> <<>>]} \cup
  {[http_ok |-> TRUE, status |-> st, results |-> rs] :
     st \in {"OK", "ZERO_RESULTS"},
     rs \in {<<>>, <<GeoLocation(address)>>, <<GeoLocation(address), [lat |-> 0, lng |-> 0]>>}}

\* raw routes of a routing response
RouteI95 ==
  [description |-> "I-95", distanceMeters |-> <<16000>>,
   distance |-> <<"9", ".", "9", " ", "m", "i">>,
   duration |-> <<"1", "2", "0", "0", "s">>,
   staticDuration |-> <<"1", "8", " ", "m", "i", "n">>,
   duration_text |-> <<"2", "0", " ", "m", "i", "n">>]

RouteUS1 ==
  [description |-> "US-1", distanceMeters |-> <<1700000>>,
   distance |-> <<"1", ",", "0", "5", "6", ".", "3", "0", " ", "m", "i">>,
   duration |-> <<"6", "1", "2", "0", "0", "s">>,
   staticDuration |-> <<"1", ",", "0", "0", "5", " ", "m", "i", "n", "s">>,
   duration_text |-> <<"1", ",", "0", "2", "0", " ", "m", "i", "n", "s">>]

\* the duration has no digits
RouteBadDuration == [RouteI95 EXCEPT !.description = "Rt 9", !.duration = <<"s">>]

\* "description": null
RouteNullDescription == [RouteI95 EXCEPT !.description = None]

\* the distance text is read as the float nan
RouteNanMiles == [RouteI95 EXCEPT !.description = "Rt 1", !.distance = <<"n", "a", "n">>]

\* a list of k well-formed routes (the two alternate)
GoodRoutes(k) == [i \in 1..k |-> IF i % 2 = 1 THEN RouteI95 ELSE RouteUS1]

\* the lists of no route, one route and MaxRoutes routes that are well
\* formed, or well formed but for one route with a bad duration, at any
\* position; and the lists of the one route that has no description, or a
\* distance that is nan
RouteLists ==
  UNION {{GoodRoutes(k)} \cup
         {[GoodRoutes(k) EXCEPT ![i] = RouteBadDuration] : i \in 1..k} : k \in {0, 1, MaxRoutes}}
  \cup {<<RouteNullDescription>>, <<RouteNanMiles>>}

\* routing responses: not r.ok, or a JSON body with the list "routes"
RouteResponses ==
  {[ok |-> FALSE, routes |-> <<>>]} \cup {[ok |-> TRUE, routes |-> rs] : rs \in RouteLists}

\* ------------------------------------------------------------------- state
VARIABLES
  locations,     \* table locations (committed rows)
  travel_times,  \* table travel_times (committed rows, in insertion order)
  txn,           \* rows inserted in the writer's open transaction
  open_cons,     \* connections this invocation opened and has not closed
  runs,          \* invocations started so far
  utc,           \* the UTC clock as last read, in instants that are told apart
  env,           \* [DIRECTION, now, cfg] of the current invocation
  pc,            \* position of main
  dir,           \* (src, dst) returned by choose_direction
  coords,        \* [o, d]: the results of the two fetch_coords calls
  results,       \* the result of fetch_directions
  batch,         \* [id, ts]: batch_id and batch_ts
  rows,          \* the tuples handed to executemany
  outcome,       \* "none", "running", "skipped", "failed", "completed"
  error,         \* class of the exception that ended the invocation
  calls,         \* [lookups, geocode, routes]: I/O of the current invocation
  pre,           \* [locations, travel_times] when the invocation started
  seen,          \* what the providers and earlier calls answered (history)
  route,         \* the route handed to _extract_route_info on its own
  request,       \* the request the web application has just served
  reply,         \* the rows it answered, with their ids and batches (history)
  other          \* an invocation in another process: [pc, run, src, cfg, rows, txn]

vars == <<locations, travel_times, txn, open_cons, runs, utc, env, pc, dir,
          coords, results, batch, rows, outcome, error, calls, pre, seen,
          route, request, reply, other>>

NoCalls == [lookups |-> 0, geocode |-> [l \in Labels |-> 0], routes |-> 0]

\* seen.geo_fail / seen.route_fail: a request of this invocation was answered
\* with a failure; seen.first[l]: the first coordinates any fetch_coords call
\* returned for label l; seen.last: the latest fetch_coords call of main, with
\* the first coordinates returned for its label when it looked the label up
\* (known), and the row stored for its label then (stored);
\* seen.inserted: the INSERTs that
\* had succeeded when the batch write ended; seen.store_fail: a statement or a
\* commit on the database raised; seen.n_routes: the routes of the
\* routing response; seen.bad_at: the position in it of a route whose
\* duration has no digits (0: none)
NothingSeen ==
  [geo_fail |-> FALSE, route_fail |-> FALSE, store_fail |-> FALSE,
   inserted |-> 0, n_routes |-> 0, bad_at |-> 0,
   first |-> [l \in Labels |-> Raise],
   last |-> [label |-> None, address |-> None, requests |-> 0, ret |-> Raise,
             known |-> Raise, stored |-> <<>>]]

NoRoute == [description |-> Absent]

NoRequest == [endpoint |-> None]

NoReply == [rows |-> <<>>, ids |-> <<>>, batches |-> <<>>, status |-> 0]

\* no invocation is running in another process
NoOther ==
  [pc |-> "idle", run |-> 0, src |-> None,
   cfg |-> CHOOSE c \in Configs : c.HOME_ADDRESS = "1 Main St",
   rows |-> <<>>, txn |-> <<>>]

\* db_init.py creates empty tables; a locations row may also have been
\* entered without coordinates (lat and lon are nullable)
InitLocations ==
  {{}, {[id |-> 1, label |-> "Home", address |-> "1 Main St", lat |-> Null, lon |-> Null]}}

\* the state before anything has run: environment e, position p, the route r
\* to extract, the rows table of travel_times and the time clock
InitState(e, p, r, table, clock) ==
  /\ locations \in InitLocations
  /\ travel_times = table
  /\ txn = <<>>
  /\ open_cons = 0
  /\ runs = 0
  /\ utc = clock
  /\ env = e
  /\ pc = p
  /\ dir = <<None, None>>
  /\ coords = [o |-> Raise, d |-> Raise]
  /\ results = Raise
  /\ batch = [id |-> 0, ts |-> 0]
  /\ rows = <<>>
  /\ outcome = "none"
  /\ error = None
  /\ calls = NoCalls
  /\ pre = [locations |-> locations, travel_times |-> travel_times, run |-> 0]
  /\ seen = NothingSeen
  /\ route = r
  /\ request = NoRequest
  /\ reply = NoReply
  /\ other = NoOther

InitWith(e, p) == InitState(e, p, NoRoute, <<>>, 0)

DefaultEnv ==
  [DIRECTION |-> <<>>, now |-> <<0, 0, 0, 0>>,
   cfg |-> CHOOSE c \in Configs : c.HOME_ADDRESS = "1 Main St"]

Init == InitWith(DefaultEnv, "idle")

\* -------------------------------------------------------------------- main
\* variant: the test is missing
Skip_never(src) == FALSE

\* if src is None: return
Skip(src) == src = None

\* ORIGIN_LABEL, ORIGIN_ADDRESS and DEST_LABEL, DEST_ADDRESS
Origin(src, cfg) ==
  IF src = "HOME" THEN [label |-> cfg.HOME_LABEL, address |-> cfg.HOME_ADDRESS]
  ELSE [label |-> cfg.WORK_LABEL, address |-> cfg.WORK_ADDRESS]

Dest(src, cfg) ==
  IF src = "HOME" THEN [label |-> cfg.WORK_LABEL, address |-> cfg.WORK_ADDRESS]
  ELSE [label |-> cfg.HOME_LABEL, address |-> cfg.HOME_ADDRESS]

\* variant: the identifier is a constant
uuid4_fixed(n) == 1

\* uuid.uuid4().hex in the n-th invocation: a value that no other invocation
\* generates
uuid4(n) == n

\* variant: the two minute values change places
MakeRows_mixed(batch_id, batch_ts, origin_label, dest_label, rs) ==
  [i \in 1..Len(rs) |->
     [batch_id |-> batch_id, batch_ts |-> batch_ts,
      origin_label |-> origin_label, dest_label |-> dest_label,
      description |-> rs[i].description, meters |-> rs[i].meters, miles |-> rs[i].miles,
      duration_seconds |-> rs[i].duration_seconds,
      duration_static |-> rs[i].duration_minutes,
      duration_minutes |-> rs[i].duration_static]]

\* the tuples of one batch, one per result
MakeRows(batch_id, batch_ts, origin_label, dest_label, rs) ==
  [i \in 1..Len(rs) |->
     [batch_id |-> batch_id, batch_ts |-> batch_ts,
      origin_label |-> origin_label, dest_label |-> dest_label,
      description |-> rs[i].description, meters |-> rs[i].meters, miles |-> rs[i].miles,
      duration_seconds |-> rs[i].duration_seconds,
      duration_static |-> rs[i].duration_static,
      duration_minutes |-> rs[i].duration_minutes]]

\* the NOT NULL constraints of travel_times that a tuple can violate: None is
\* bound as NULL, and so is the float nan
NotNullOk(row) == row.description # None /\ row.miles # NaN

\* a tuple as stored: id (INTEGER PRIMARY KEY) and ts (CURRENT_TIMESTAMP) are
\* set by the INSERT; run is the invocation that inserted the row (history)
Stored(row, id, ts, run) ==
  [id |-> id, ts |-> ts, run |-> run,
   batch_id |-> row.batch_id, batch_ts |-> row.batch_ts,
   origin_label |-> row.origin_label, dest_label |-> row.dest_label,
   description |-> row.description, meters |-> row.meters, miles |-> row.miles,
   duration_seconds |-> row.duration_seconds,
   duration_static |-> row.duration_static,
   duration_minutes |-> row.duration_minutes]

\* "with con:" leaving normally, and leaving by an exception
\* (variant of the first: the committed rows replace the table)
commit_replace(table, pending) == pending

commit(table, pending) == table \o pending

\* variant: the inserted rows stay (no transaction around the INSERTs)
rollback_keep(table, pending) == table \o pending

rollback(table, pending) == table

\* variant: the exception is not raised, the call never returns
Fail_hang(cls) == pc' = "hung" /\ UNCHANGED <<outcome, error>>

\* an exception leaves main: the invocation ends with a traceback
Fail(cls) == pc' = "done" /\ outcome' = "failed" /\ error' = cls

\* an answer of the web application is with its client before the pipeline
\* takes its next step: request and reply describe a request served in the
\* current state
Delivered == request' = NoRequest /\ reply' = NoReply

\* the clock is read by datetime.utcnow() (line 175) and by the
\* CURRENT_TIMESTAMP of each INSERT (db_init.py line 21): at a read it stands
\* where it was read last or has moved on to the next instant
Elapsed == {d \in {0, 1} : utc + d <= MaxClock}

\* main, lines 155-166: choose_direction and the labels of the direction
main_start ==
  /\ pc \in {"idle", "done"}
  /\ runs < MaxRuns
  /\ \E e \in Environments :
       /\ env' = e
       /\ dir' = choose_direction(e.DIRECTION, e.now)
  /\ runs' = runs + 1
  /\ IF Skip(dir'[1])
     THEN pc' = "done" /\ outcome' = "skipped"
     ELSE pc' = "fetch_origin" /\ outcome' = "running"
  /\ error' = None
  /\ coords' = [o |-> Raise, d |-> Raise]
  /\ results' = Raise
  /\ rows' = <<>>
  /\ open_cons' = 0
  /\ calls' = NoCalls
  /\ pre' = [locations |-> locations, travel_times |-> travel_times, run |-> runs + 1]
  /\ batch' = [id |-> 0, ts |-> 0]
  /\ seen' = [NothingSeen EXCEPT !.first = seen.first]
  /\ UNCHANGED <<locations, travel_times, txn, utc>>
  /\ UNCHANGED <<route, other>> /\ Delivered

\* the database is one file with one write lock: a statement that writes
\* goes through when no other process is inside a transaction, and otherwise
\* waits or, after the timeout of sqlite3.connect, raises
LockFree(pending) == pending = <<>>

\* a call fetch_coords(at.label, at.address), line 168 or 169, up to the
\* return of line 45 or to the request of line 47
LookupCoords(at, slot, wait, next) ==
  LET c == fetch_coords_lookup(locations, at.label, at.address) IN
    /\ coords' = [coords EXCEPT ![slot] = c]
    /\ calls' = [calls EXCEPT !.lookups = @ + 1]
    /\ seen' = [seen EXCEPT
                  !.first[at.label] = IF @ = Raise THEN c ELSE @,
                  !.last = [label |-> at.label, address |-> at.address,
                            requests |-> 0, ret |-> c,
                            known |-> seen.first[at.label],
                            stored |-> LocationRow(locations, at.label)]]
    /\ IF c = <<>>
       THEN pc' = wait /\ open_cons' = open_cons + 1
       ELSE pc' = next /\ UNCHANGED open_cons
    /\ UNCHANGED <<locations, travel_times, txn, runs, utc, env, dir, results, batch,
                   rows, outcome, error, pre>>
    /\ UNCHANGED <<route, other>> /\ Delivered

\* the rest of the call, from the response of the geocoding service on
GeocodeCoords(at, slot, next) ==
  \E resp \in GeoResponses(at.address), db_ok \in BOOLEAN :
    LET r == fetch_coords_geocode(locations, at.label, at.address, resp, db_ok) IN
      /\ db_ok => LockFree(other.txn)
      /\ locations' = r.locations
      /\ coords' = [coords EXCEPT ![slot] = r.ret]
      /\ open_cons' = open_cons - (IF r.closed THEN 1 ELSE 0)
      /\ calls' = [calls EXCEPT !.geocode[at.label] = @ + r.requests]
      /\ seen' = [seen EXCEPT
                    !.geo_fail = @ \/ ~resp.http_ok \/ resp.status # "OK" \/ resp.results = <<>>,
                    !.store_fail = @ \/ (~GeocodeFailed(resp) /\ resp.http_ok /\ ~db_ok),
                    !.first[at.label] = IF @ = Raise THEN r.ret ELSE @,
                    !.last.requests = r.requests,
                    !.last.ret = r.ret]
      /\ IF r.ret = Raise
         THEN Fail(r.error)
         ELSE pc' = next /\ UNCHANGED <<outcome, error>>
      /\ UNCHANGED <<travel_times, txn, runs, utc, env, dir, results, batch, rows, pre>>
      /\ UNCHANGED <<route, other>> /\ Delivered

\* line 168 up to the request
main_fetch_origin ==
  /\ pc = "fetch_origin"
  /\ LookupCoords(Origin(dir[1], env.cfg), "o", "geocode_origin", "fetch_dest")

\* line 168 from the response on
main_geocode_origin ==
  /\ pc = "geocode_origin"
  /\ GeocodeCoords(Origin(dir[1], env.cfg), "o", "fetch_dest")

\* line 169 up to the request
main_fetch_dest ==
  /\ pc = "fetch_dest"
  /\ LookupCoords(Dest(dir[1], env.cfg), "d", "geocode_dest", "fetch_directions")

\* line 169 from the response on
main_geocode_dest ==
  /\ pc = "geocode_dest"
  /\ GeocodeCoords(Dest(dir[1], env.cfg), "d", "fetch_directions")

\* line 171
main_fetch_directions ==
  /\ pc = "fetch_directions"
  /\ \E resp \in RouteResponses :
       LET r == fetch_directions(resp) IN
         /\ calls' = [calls EXCEPT !.routes = @ + 1]
         /\ seen' = [seen EXCEPT
                       !.route_fail = ~resp.ok \/ resp.routes = <<>>,
                       !.n_routes = Len(resp.routes),
                       !.bad_at = IF \E i \in 1..Len(resp.routes) : resp.routes[i].duration = <<"s">>
                                  THEN CHOOSE i \in 1..Len(resp.routes) :
                                         resp.routes[i].duration = <<"s">>
                                  ELSE 0]
         /\ results' = r.ret
         /\ IF r.ret = Raise
            THEN Fail(r.error)
            ELSE pc' = "write" /\ UNCHANGED <<outcome, error>>
  /\ UNCHANGED <<locations, travel_times, txn, open_cons, runs, utc, env, dir,
                 coords, batch, rows, pre>>
  /\ UNCHANGED <<route, other>> /\ Delivered

\* lines 174-193: batch_id, batch_ts, rows, get_db()
main_write ==
  /\ pc = "write"
  /\ \E d \in Elapsed : utc' = utc + d
  /\ batch' = [id |-> uuid4(pre.run), ts |-> utc']
  /\ rows' = MakeRows(batch'.id, batch'.ts, Origin(dir[1], env.cfg).label,
                      Dest(dir[1], env.cfg).label, results[1])
  /\ open_cons' = open_cons + 1
  /\ pc' = "executemany"
  /\ UNCHANGED <<locations, travel_times, txn, runs, env, dir, coords, results,
                 outcome, error, calls, pre, seen>>
  /\ UNCHANGED <<route, other>> /\ Delivered

\* the exception of a failed INSERT or COMMIT leaves "with con:" (rollback)
\* and the finally clause closes the connection
WriteFails ==
  /\ travel_times' = rollback(travel_times, txn)
  /\ txn' = <<>>
  /\ open_cons' = open_cons - 1
  /\ seen' = [seen EXCEPT !.inserted = Len(txn), !.store_fail = TRUE]
  /\ Fail("storage")

\* executemany, one tuple: the INSERT succeeds, with ts the CURRENT_TIMESTAMP
\* read at this INSERT, or it raises (a constraint of the table, or the
\* storage layer)
main_executemany ==
  /\ pc = "executemany"
  /\ Len(txn) < Len(rows)
  /\ \E io_ok \in BOOLEAN :
       /\ io_ok => LockFree(other.txn)
       /\ LET row == rows[Len(txn) + 1] IN
            IF io_ok /\ NotNullOk(row)
            THEN /\ \E d \in Elapsed : utc' = utc + d
                 /\ txn' = Append(txn, Stored(row, Len(travel_times) + Len(txn) + 1, utc',
                                              pre.run))
                 /\ UNCHANGED <<travel_times, open_cons, pc, outcome, error, seen>>
            ELSE WriteFails /\ UNCHANGED utc
  /\ UNCHANGED <<locations, runs, env, dir, coords, results, batch, rows,
                 calls, pre>>
  /\ UNCHANGED <<route, other>> /\ Delivered

\* the end of "with con:" (COMMIT), then con.close()
main_commit ==
  /\ pc = "executemany"
  /\ Len(txn) = Len(rows)
  /\ \E io_ok \in BOOLEAN :
       IF io_ok
       THEN /\ travel_times' = commit(travel_times, txn)
            /\ txn' = <<>>
            /\ open_cons' = open_cons - 1
            /\ seen' = [seen EXCEPT !.inserted = Len(txn)]
            /\ pc' = "done" /\ outcome' = "completed"
            /\ UNCHANGED error
       ELSE WriteFails
  /\ UNCHANGED <<locations, runs, utc, env, dir, coords, results, batch, rows,
                 calls, pre>>
  /\ UNCHANGED <<route, other>> /\ Delivered

Next ==
  \/ main_start
  \/ main_fetch_origin
  \/ main_geocode_origin
  \/ main_fetch_dest
  \/ main_geocode_dest
  \/ main_fetch_directions
  \/ main_write
  \/ main_executemany
  \/ main_commit

Spec == Init /\ [][Next]_vars

\* the steps of an invocation that has started: main is one thread that runs
\* to its end, and every call it waits for returns or raises (the requests
\* have timeouts, lines 47 and 105; sqlite3 gives up a locked database)
Running ==
  \/ main_fetch_origin
  \/ main_geocode_origin
  \/ main_fetch_dest
  \/ main_geocode_dest
  \/ main_fetch_directions
  \/ main_write
  \/ main_executemany
  \/ main_commit

\* whether an invocation is started is up to the scheduler
SpecLive == Init /\ [][Next]_vars /\ WF_vars(Running)

\* ------------------------------------------- an overlapping invocation
\* Nothing in the script keeps a second process from running main() while an
\* invocation is under way. The steps of that process are those of main; of
\* its state only what its later steps use is kept. One such process runs
\* beside one invocation of main, starting before, during or after it.
OtherUnchanged ==
  UNCHANGED <<txn, open_cons, env, pc, dir, coords, results, batch, rows, outcome,
              error, calls, pre, route>>

\* an exception, or the return, ends the other process: a transaction it had
\* open is rolled back
other_end == other' = [NoOther EXCEPT !.pc = "done"]

\* fetch_coords up to the return of line 45 (next) or the request of line 47
\* (wait)
OtherLookup(o, at, wait, next) ==
  [o EXCEPT !.pc = IF fetch_coords_lookup(locations, at.label, at.address) = <<>>
                   THEN wait ELSE next]

\* the other process runs with DIRECTION unset, before and in the first
\* window, and with the second home address
OtherSettings == {st \in Settings : st.DIRECTION = <<>>}

OtherConfigs == {c \in Configs : c.HOME_ADDRESS = "2 Side St"}

\* the routing responses the other process is given: at most one route
OtherRouteResponses == {r \in RouteResponses : Len(r.routes) <= 1}

\* lines 106-193: fetch_directions from the response resp on, and the tuples
\* of the batch with the batch_ts read at the instant now
OtherDirections(o, resp, now) ==
  LET r == fetch_directions(resp) IN
    IF r.ret = Raise
    THEN [NoOther EXCEPT !.pc = "done"]
    ELSE [o EXCEPT !.pc = "executemany",
                   !.rows = MakeRows(uuid4(o.run), now, Origin(o.src, o.cfg).label,
                                     Dest(o.src, o.cfg).label, r.ret[1])]

\* main, lines 155-168, up to the return or the request of the first
\* fetch_coords call
other_start ==
  /\ other.pc = "idle"
  /\ runs < MaxRuns
  /\ runs' = runs + 1
  /\ \E st \in OtherSettings, cfg \in OtherConfigs :
       LET d == choose_direction(st.DIRECTION, st.now)
           o == [NoOther EXCEPT !.run = runs + 1, !.src = d[1], !.cfg = cfg]
       IN IF Skip(d[1])
          THEN other_end
          ELSE other' = OtherLookup(o, Origin(d[1], cfg), "geocode_origin", "fetch_dest")
  /\ UNCHANGED <<locations, travel_times, utc, seen>>
  /\ OtherUnchanged /\ Delivered

\* line 168 from the response on
other_geocode_origin ==
  /\ other.pc = "geocode_origin"
  /\ \E resp \in GeoResponses(Origin(other.src, other.cfg).address), db_ok \in BOOLEAN :
       LET at == Origin(other.src, other.cfg)
           r == fetch_coords_geocode(locations, at.label, at.address, resp, db_ok)
       IN /\ db_ok => LockFree(txn)
          /\ locations' = r.locations
          /\ seen' = [seen EXCEPT !.first[at.label] = IF @ = Raise THEN r.ret ELSE @]
          /\ IF r.ret = Raise THEN other_end ELSE other' = [other EXCEPT !.pc = "fetch_dest"]
  /\ UNCHANGED <<travel_times, runs, utc>>
  /\ OtherUnchanged /\ Delivered

\* line 169 up to the return of line 45 or the request of line 47; after the
\* return the routing request is sent (line 105)
other_fetch_dest ==
  /\ other.pc = "fetch_dest"
  /\ other' = OtherLookup(other, Dest(other.src, other.cfg), "geocode_dest",
                          "fetch_directions")
  /\ UNCHANGED <<locations, travel_times, runs, utc, seen>>
  /\ OtherUnchanged /\ Delivered

\* line 169 from the response on, up to the routing request (line 105)
other_geocode_dest ==
  /\ other.pc = "geocode_dest"
  /\ \E resp \in GeoResponses(Dest(other.src, other.cfg).address), db_ok \in BOOLEAN :
       LET at == Dest(other.src, other.cfg)
           r == fetch_coords_geocode(locations, at.label, at.address, resp, db_ok)
       IN /\ db_ok => LockFree(txn)
          /\ locations' = r.locations
          /\ seen' = [seen EXCEPT !.first[at.label] = IF @ = Raise THEN r.ret ELSE @]
          /\ IF r.ret = Raise
             THEN other_end
             ELSE other' = [other EXCEPT !.pc = "fetch_directions"]
  /\ UNCHANGED <<travel_times, runs, utc>>
  /\ OtherUnchanged /\ Delivered

\* lines 105-193, from the response of the routing service on
other_fetch_directions ==
  /\ other.pc = "fetch_directions"
  /\ \E resp \in OtherRouteResponses :
       /\ IF fetch_directions(resp).ret = Raise
          THEN UNCHANGED utc
          ELSE \E d \in Elapsed : utc' = utc + d
       /\ other' = OtherDirections(other, resp, utc')
  /\ UNCHANGED <<locations, travel_times, runs, seen>>
  /\ OtherUnchanged /\ Delivered

\* executemany, one tuple, with ts the CURRENT_TIMESTAMP read at this INSERT
other_executemany ==
  /\ other.pc = "executemany"
  /\ Len(other.txn) < Len(other.rows)
  /\ \E io_ok \in BOOLEAN :
       /\ io_ok => LockFree(txn)
       /\ LET row == other.rows[Len(other.txn) + 1] IN
            IF io_ok /\ NotNullOk(row)
            THEN /\ \E d \in Elapsed : utc' = utc + d
                 /\ other' = [other EXCEPT !.txn =
                                 Append(@, Stored(row, Len(travel_times) + Len(other.txn) + 1,
                                                  utc', other.run))]
            ELSE other_end /\ UNCHANGED utc
  /\ travel_times' = IF other'.pc = "done" THEN rollback(travel_times, other.txn)
                     ELSE travel_times
  /\ UNCHANGED <<locations, runs, seen>>
  /\ OtherUnchanged /\ Delivered

\* the end of "with con:" (COMMIT)
other_commit ==
  /\ other.pc = "executemany"
  /\ Len(other.txn) = Len(other.rows)
  /\ \E io_ok \in BOOLEAN :
       travel_times' = IF io_ok THEN commit(travel_times, other.txn)
                       ELSE rollback(travel_times, other.txn)
  /\ other_end
  /\ UNCHANGED <<locations, runs, utc, seen>>
  /\ OtherUnchanged /\ Delivered

Other ==
  \/ other_start
  \/ other_geocode_origin
  \/ other_fetch_dest
  \/ other_geocode_dest
  \/ other_fetch_directions
  \/ other_executemany
  \/ other_commit

\* the invocation that is followed in full
main_once == pc = "idle" /\ main_start

NextOverlap == main_once \/ Running \/ Other

SpecOverlap == Init /\ [][NextOverlap]_vars

\* ------------------------------------------- choose_direction on its own
\* values of DIRECTION: unset, the two forced values in several spellings,
\* and values that force nothing
ForcedH2W == {H2W, <<"h", "2", "w">>, <<" ", "H", "2", "w", " ">>, <<"H", "2", "W", "\n">>}

ForcedW2H == {W2H, <<"w", "2", "h", " ">>, <<"\t", "w", "2", "H">>}

Unforced == {<<>>, <<"H", "O", "M", "E">>, <<"H", "2">>, <<" ">>, <<"H", "_", "W">>}

AllOverrides == ForcedH2W \cup ForcedW2H \cup Unforced

\* every minute of the day, at the first and the last microsecond of its first
\* second and at the last of its last second
AllTimes ==
  {<<h, m, 0, us>> : h \in 0..23, m \in 0..59, us \in {0, 1}} \cup
  {<<h, m, 59, 999999>> : h \in 0..23, m \in 0..59}

InitDirection ==
  \E d \in AllOverrides, t \in AllTimes :
    InitWith([DIRECTION |-> d, now |-> t, cfg |-> DefaultEnv.cfg], "clock")

\* one evaluation of choose_direction() (line 156)
direction_step ==
  /\ pc = "clock"
  /\ dir' = choose_direction(env.DIRECTION, env.now)
  /\ pc' = "chosen"
  /\ UNCHANGED <<locations, travel_times, txn, open_cons, runs, utc, env, coords,
                 results, batch, rows, outcome, error, calls, pre, seen>>
  /\ UNCHANGED <<route, request, reply, other>>

NextDirection == direction_step

SpecDirection == InitDirection /\ [][NextDirection]_vars

\* --------------------------------------- _extract_route_info on its own
\* texts of the raw duration, of the two minute fields and of the distance,
\* as the provider sends them and otherwise; NoText is a missing key
DurationTexts ==
  {<<"1", "2", "0", "0", "s">>, <<"1", "2", "0", "0">>, <<"1", "2", "0", "0", "s", "s">>,
   <<"1", "2", "m">>, <<"s">>, <<"<FS>", "1", "2", "0", "0", "s">>, NoText}

MinuteTexts ==
  {<<"1", "8", " ", "m", "i", "n">>, <<"1", ",", "0", "0", "5", " ", "m", "i", "n", "s">>,
   <<"1", "8", " ", "h", "o", "u", "r", "s">>, <<"1", "8">>, <<"1", "8", "m", "i", "n">>,
   <<"1", "8", "\t", "m", "i", "n">>, <<"m", "i", "n">>,
   <<"<U+0661>", "<U+0668>", " ", "m", "i", "n">>, NoText}

DistanceTexts ==
  {<<"9", ".", "9", " ", "m", "i">>, <<"1", ",", "0", "5", "6", ".", "3", "0", " ", "m", "i">>,
   <<"9", ".", "9", " ", "k", "m">>, <<"9", ".", "9">>, <<"m", "i">>, NoText,
   <<"1", "e", "1", " ", "m", "i">>, <<"i", "n", "f", " ", "m", "i">>,
   <<"n", "a", "n">>, <<"<U+FF11>", ".", "<U+FF15>", " ", "m", "i">>}

AllRoutes ==
  {[description |-> "I-95", distanceMeters |-> m, distance |-> d, duration |-> s,
    staticDuration |-> st, duration_text |-> <<"2", "0", " ", "m", "i", "n">>] :
     m \in {<<16000>>, Null}, d \in DistanceTexts, s \in DurationTexts, st \in MinuteTexts}
  \cup
  {[RouteUS1 EXCEPT !.description = de, !.duration_text = t] :
     de \in {"US-1", Absent}, t \in MinuteTexts}

InitExtract == \E r \in AllRoutes : InitState(DefaultEnv, "route", r, <<>>, 0)

\* one evaluation of _extract_route_info(route), as in line 120
extract_step ==
  /\ pc = "route"
  /\ results' = _extract_route_info(route)
  /\ pc' = "extracted"
  /\ UNCHANGED <<locations, travel_times, txn, open_cons, runs, utc, env, dir, coords,
                 batch, rows, outcome, error, calls, pre, seen>>
  /\ UNCHANGED <<route, request, reply, other>>

NextExtract == extract_step

SpecExtract == InitExtract /\ [][NextExtract]_vars

\* ------------------------------------------------- the web application
\* api/app.py reads travel_times. ts is CURRENT_TIMESTAMP, here in seconds
\* since 1970-01-01 00:00:00 UTC; query arguments are texts of ASCII
\* characters, NoText when not given
HOME_LABEL == "Home"
WORK_LABEL == "Work"

Day == 86400

\* the time of day of a ts, as datetime.fromisoformat(r["ts"]).time(): a ts
\* is a text of whole seconds
TimeOfDay(ts) == <<(ts % Day) \div 3600, (ts % 3600) \div 60, ts % 60, 0>>

\* ORDER BY ts ASC; rows of equal ts come out in the order of their ids
RECURSIVE SortByTs(_)
SortByTs(M) ==
  IF M = {} THEN <<>>
  ELSE LET r == CHOOSE x \in M :
                  \A y \in M : x.ts < y.ts \/ (x.ts = y.ts /\ x.id <= y.id)
       IN <<r>> \o SortByTs(M \ {r})

\* the Julian day number of 1970-01-01: SQLite computes dates as Julian days,
\* and the instant ts is the Julian day UnixEpochDay + 1/2 + ts / Day
UnixEpochDay == 2440587

\* datetime('now', '-<days> days') is a date: '--1 days' is no modifier, and
\* SQLite has no date before Julian day 0; otherwise the result is NULL
DateExists(days, now) ==
  days >= 0 /\ days <= UnixEpochDay + (now + Day \div 2) \div Day

\* ts >= datetime('now', '-<days> days'), the latter being a date
NotBefore(ts, days, now) ==
  now - ts <= 0 \/ (now - ts + Day - 1) \div Day <= days

\* get_rows(direction, days) at time now: the selected stored rows; no ts
\* compares with NULL
get_rows(table, direction, days, now) ==
  LET origin == IF direction = H2W THEN HOME_LABEL ELSE WORK_LABEL
      dest == IF direction = H2W THEN WORK_LABEL ELSE HOME_LABEL
  IN SortByTs({table[i] : i \in
       {j \in 1..Len(table) : /\ table[j].origin_label = origin
                              /\ table[j].dest_label = dest
                              /\ DateExists(days, now)
                              /\ NotBefore(table[j].ts, days, now)}})

\* the columns of the SELECT
dict_row(r) ==
  [ts |-> r.ts, origin_label |-> r.origin_label, dest_label |-> r.dest_label,
   description |-> r.description, miles |-> r.miles,
   duration_minutes |-> r.duration_minutes, duration_static |-> r.duration_static]

\* request.args.get(key, default)
Arg(v, default) == IF v = NoText THEN default ELSE v

\* str.isdigit()
isdigit(s) == s # <<>> /\ \A i \in 1..Len(s) : IsDigit(s[i]) \/ s[i] \in OtherDigits

\* rows[-n:]
LastRows(rs, n) ==
  IF n = 0 \/ n >= Len(rs) THEN rs ELSE SubSeq(rs, Len(rs) - n + 1, Len(rs))

\* rows[-int(limit):] under "if limit.isdigit()": Raise when int(limit) raises
Limited(rs, limit) ==
  IF ~isdigit(limit) THEN Ok(rs)
  ELSE IF int_str(limit) = Raise THEN Raise
  ELSE Ok(LastRows(rs, int_str(limit)[1]))

\* START <= dt.time() <= END
InHours(r) ==
  TimeLE(dtime(5, 0), TimeOfDay(r.ts)) /\ TimeLE(TimeOfDay(r.ts), dtime(19, 0))

\* the rows index() renders: Raise when int(days) or int(limit) raises
index_rows(table, now, args) ==
  LET direction == upper(Arg(args.direction, H2W))
      days == IF args.days = NoText THEN Ok(14) ELSE int_str(args.days)
      limit == strip(Arg(args.limit, <<>>))
  IN IF days = Raise THEN Raise
     ELSE LET rs == get_rows(table, direction, days[1], now)
          IN Limited(rs, limit)

\* the rows data_json() returns
data_json_rows(table, now, args) ==
  LET direction == upper(Arg(args.direction, H2W))
      days == IF args.days = NoText THEN Ok(14) ELSE int_str(args.days)
      limit == strip(Arg(args.limit, <<>>))
      filter_hours == Arg(args.filter_hours, <<"1">>) = <<"1">>
  IN IF days = Raise THEN Raise
     ELSE LET rs == get_rows(table, direction, days[1], now)
              out == IF filter_hours THEN SelectSeq(rs, InHours) ELSE rs
          IN Limited(out, limit)

\* a handler has answered: the exception of int(days) or int(limit) is
\* answered with 500
Serve(endpoint, args, res) ==
  /\ request' = [endpoint |-> endpoint, args |-> args]
  /\ reply' = IF res = Raise
              THEN [rows |-> <<>>, ids |-> <<>>, batches |-> <<>>, status |-> 500]
              ELSE [rows |-> [i \in 1..Len(res[1]) |-> dict_row(res[1][i])],
                    ids |-> [i \in 1..Len(res[1]) |-> res[1][i].id],
                    batches |-> [i \in 1..Len(res[1]) |-> res[1][i].batch_id],
                    status |-> 200]
  /\ UNCHANGED <<locations, travel_times, txn, open_cons, runs, utc, env, pc, dir, coords,
                 results, batch, rows, outcome, error, calls, pre, seen, route, other>>

\* query arguments of the web application
Directions == {NoText, <<"w", "2", "h">>}
\* days: not given, a day, no number, more days than SQLite has dates for
\* (also an Arabic-Indic 1, and a 1 after the separator U+001C)
DaysTexts ==
  {NoText, <<"1">>, <<"x">>, <<"3", "0", "0", "0", "0", "0", "0">>, <<"<U+0661>">>,
   <<"<FS>", "1">>}
\* limit: also a fullwidth 1 and a superscript 2
LimitTexts ==
  {NoText, <<"0">>, <<"1">>, <<" ", "2">>, <<"-", "1">>, <<"<U+FF11>">>, <<"<U+00B2>">>}
FilterTexts == {NoText, <<"0">>}

AllArgs ==
  [direction : Directions, days : DaysTexts, limit : LimitTexts, filter_hours : FilterTexts]

\* variant: the rows of the open transaction of main are seen as well
Visible_uncommitted(table, pending) == table \o pending

\* what the connection of get_rows sees of travel_times while main has
\* inserted the rows pending and not committed them
Visible(table, pending) == table

\* GET /
index(argset) ==
  \E args \in argset :
    Serve("index", args, index_rows(Visible(travel_times, txn), utc, args))

\* GET /data.json
data_json(argset) ==
  \E args \in argset :
    Serve("data_json", args, data_json_rows(Visible(travel_times, txn), utc, args))

\* the time of the requests, a noon
Now == 40 * Day + 12 * 3600

\* creation times: before the 14 days, at their start, the day before at
\* 4:59:59, at 5:00:00, at 19:00:00 and at 19:00:01
Times ==
  {Now - 20 * Day, Now - 14 * Day, Now - Day - 25201, Now - Day - 25200,
   Now - Day + 25200, Now - Day + 25201}

MaxRows == 3

ExtractedI95 == _extract_route_info(RouteI95)[1]

\* a stored row as main writes it, of route I-95
SampleRow(id, ts, d) ==
  Stored(MakeRows(id, ts, IF d = H2W THEN HOME_LABEL ELSE WORK_LABEL,
                  IF d = H2W THEN WORK_LABEL ELSE HOME_LABEL,
                  <<ExtractedI95>>)[1], id, ts, 0)

\* tables of up to MaxRows rows, each row its own batch, in any order of ts
\* (the clock of the host may have been set back between two invocations)
Tables ==
  UNION {{[i \in 1..n |-> SampleRow(i, f[i][1], f[i][2])] :
            f \in [1..n -> (Times \X {H2W}) \cup {<<Now - Day, W2H>>}]} : n \in 0..MaxRows}

InitRead == \E t \in Tables : InitState(DefaultEnv, "web", NoRoute, t, Now)

\* the handlers keep no state between requests: one request on each table
NextRead ==
  \/ request = NoRequest /\ index(AllArgs)
  \/ request = NoRequest /\ data_json(AllArgs)

SpecRead == InitRead /\ [][NextRead]_vars

\* ------------------------------------------- a reader beside the pipeline
\* the rows with batch identifier b, as a read by batch_id gives them
\* (SELECT ... WHERE batch_id = ?, served by the index idx_tt_batch)
batch_rows(table, b) == SelectSeq(table, LAMBDA r : r.batch_id = b)

\* a reader asks for the rows of the batch of the invocation, at any point
\* from the making of its identifier on, through a connection of its own
read_batch ==
  /\ batch.id # 0
  /\ Serve("batch", [batch_id |-> batch.id],
           Ok(batch_rows(Visible(travel_times, txn), batch.id)))

NextReader == Next \/ read_batch

SpecReader == Init /\ [][NextReader]_vars

\* ------------------------------------------------------------------ claims
\* the time t is not before, and not after, the start of minute h:m
FromMinute(t, h, m) == 60 * t[1] + t[2] >= 60 * h + m

UpToMinute(t, h, m) ==
  \/ 60 * t[1] + t[2] < 60 * h + m
  \/ 60 * t[1] + t[2] = 60 * h + m /\ t[3] = 0 /\ t[4] = 0

\* C1: with no forced direction, choose_direction returns HOME->WORK exactly
\* for the times from 05:30:00 to 10:30:00, WORK->HOME exactly for the times
\* from 10:40:00 to 18:30:00, and (None, None) for every other time, the
\* times after 10:30:00.000000 and after 18:30:00.000000 included
DirectionWindows ==
  (pc = "chosen" /\ env.DIRECTION \in Unforced) =>
    LET t == env.now
        morning == FromMinute(t, 5, 30) /\ UpToMinute(t, 10, 30)
        evening == FromMinute(t, 10, 40) /\ UpToMinute(t, 18, 30)
    IN /\ dir = <<"HOME", "WORK">> <=> morning
       /\ dir = <<"WORK", "HOME">> <=> evening
       /\ dir = <<None, None>> <=> (~morning /\ ~evening)

DirectionWindowsWitness ==
  /\ pc = "chosen" /\ env.DIRECTION = <<>>
  /\ env.now = <<18, 30, 0, 0>> /\ dir = <<"WORK", "HOME">>

\* C7: a forced direction is returned at every time of the day
ForcedDirection ==
  pc = "chosen" =>
    /\ env.DIRECTION \in ForcedH2W => dir = <<"HOME", "WORK">>
    /\ env.DIRECTION \in ForcedW2H => dir = <<"WORK", "HOME">>

ForcedDirectionWitness ==
  /\ pc = "chosen" /\ env.DIRECTION = <<"w", "2", "h", " ">>
  /\ env.now = <<23, 15, 0, 0>> /\ dir = <<"WORK", "HOME">>

RowsOfBatch(table, id) == {i \in 1..Len(table) : table[i].batch_id = id}

\* C2: a batch write that fails after k of its n INSERTs leaves no row of the
\* batch in travel_times; one that does not fail leaves all n
BatchAllOrNothing ==
  (pc = "done" /\ batch.id # 0) =>
    /\ outcome \in {"completed", "failed"}
    /\ outcome = "completed" =>
         Cardinality(RowsOfBatch(travel_times, batch.id)) = Len(rows)
    /\ outcome = "failed" =>
         /\ error = "storage"
         /\ RowsOfBatch(travel_times, batch.id) = {}

BatchAllOrNothingWitness ==
  /\ pc = "done" /\ outcome = "failed" /\ error = "storage"
  /\ Len(rows) = 2 /\ seen.inserted = 1
  /\ RowsOfBatch(travel_times, batch.id) = {}

\* C3: the rows of travel_times with the same batch_id have the same batch_ts,
\* origin_label and dest_label and were inserted by the same invocation
BatchCohesion ==
  \A i, j \in 1..Len(travel_times) :
    travel_times[i].batch_id = travel_times[j].batch_id =>
      /\ travel_times[i].batch_ts = travel_times[j].batch_ts
      /\ travel_times[i].origin_label = travel_times[j].origin_label
      /\ travel_times[i].dest_label = travel_times[j].dest_label
      /\ travel_times[i].run = travel_times[j].run

BatchCohesionWitness ==
  /\ \E i, j \in 1..Len(travel_times) :
       i # j /\ travel_times[i].batch_id = travel_times[j].batch_id
  /\ \E i, j \in 1..Len(travel_times) :
       /\ travel_times[i].batch_id # travel_times[j].batch_id
       /\ travel_times[i].origin_label # travel_times[j].origin_label

\* C4 as stated: an invocation that ends in an error leaves both tables as
\* they were before it
NoStateAfterError ==
  (pc = "done" /\ outcome = "failed") =>
    locations = pre.locations /\ travel_times = pre.travel_times

\* the rows fetch_coords stores for a call that returned c for the label
ResolvedRow(r, at, c) ==
  c # Raise /\ r.label = at.label /\ r.lat = <<c[1][1]>> /\ r.lon = <<c[1][2]>>

\* C4, amended: an invocation that ends in an error leaves travel_times as it
\* was, and changes locations only by the rows of the labels that fetch_coords
\* resolved in this invocation before the error
NoSampleAfterError ==
  (pc = "done" /\ outcome = "failed") =>
    /\ travel_times = pre.travel_times
    /\ txn = <<>>
    /\ \A r \in pre.locations : \E r2 \in locations : r2.id = r.id /\ r2.label = r.label
    /\ \A r \in locations :
         \/ r \in pre.locations
         \/ ResolvedRow(r, Origin(dir[1], env.cfg), coords.o)
         \/ ResolvedRow(r, Dest(dir[1], env.cfg), coords.d)

NoSampleAfterErrorWitness ==
  /\ pc = "done" /\ outcome = "failed" /\ error = "resolution"
  /\ coords.o # Raise /\ coords.d = Raise
  /\ locations # pre.locations

\* C5: a fetch_coords call for a label made after a call has returned
\* coordinates for that label sends no geocoding request and returns the
\* coordinates the first call returned, also when the address in the
\* configuration has changed since
CacheHit ==
  seen.last.known # Raise =>
    seen.last.requests = 0 /\ seen.last.ret = seen.last.known

CacheHitWitness ==
  /\ pre.run = 2 /\ pc = "fetch_dest"
  /\ seen.last.label = "Home" /\ seen.last.known # Raise
  /\ seen.last.requests = 0 /\ seen.last.ret = seen.last.known
  /\ Cached(seen.last.stored) /\ seen.last.stored[1].address # env.cfg.HOME_ADDRESS

\* C6: locations holds at most one row per label
OneRowPerLabel ==
  \A r1, r2 \in locations : r1.label = r2.label => r1 = r2

OneRowPerLabelWitness ==
  /\ \E r \in pre.locations : r.label = "Home" /\ r.lat = Null
  /\ \E r \in locations : r.label = "Home" /\ r.lat # Null /\ r.address = "2 Side St"
  /\ Cardinality(locations) = 2

\* C8: when choose_direction returns (None, None) the invocation ends at once
\* and without an error: no lookup, no request, no write
SkipDoesNothing ==
  (runs > 0 /\ dir[1] = None) =>
    /\ pc = "done" /\ outcome = "skipped" /\ error = None
    /\ calls = NoCalls
    /\ open_cons = 0 /\ txn = <<>>
    /\ locations = pre.locations /\ travel_times = pre.travel_times

SkipDoesNothingWitness ==
  /\ outcome = "skipped" /\ dir = <<None, None>>
  /\ runs = 2 /\ travel_times # <<>>

\* C9: when a geocoding request fails, the invocation ends with an error, has
\* sent no routing request and has written no sample
GeocodeFailureAborts ==
  seen.geo_fail =>
    /\ pc = "done" /\ outcome = "failed" /\ error = "resolution"
    /\ calls.routes = 0
    /\ results = Raise /\ rows = <<>> /\ txn = <<>>
    /\ travel_times = pre.travel_times

GeocodeFailureAbortsWitness ==
  /\ seen.geo_fail /\ outcome = "failed"
  /\ coords.o # Raise /\ coords.d = Raise
  /\ calls.geocode[Dest(dir[1], env.cfg).label] = 1

\* C10: when the routing request fails or returns no route, the invocation
\* ends with an error and has written no sample; a completed invocation has
\* committed at least one row of its batch
RoutingFailureAborts ==
  /\ seen.route_fail =>
       /\ pc = "done" /\ outcome = "failed" /\ error = "upstream"
       /\ rows = <<>> /\ txn = <<>>
       /\ travel_times = pre.travel_times
  /\ outcome = "completed" => RowsOfBatch(travel_times, batch.id) # {}

RoutingFailureAbortsWitness ==
  /\ seen.route_fail /\ outcome = "failed" /\ error = "upstream"
  /\ calls.routes = 1 /\ coords.d # Raise

\* C11: when one route of the response cannot be extracted, whatever its
\* position, the invocation ends with an error and no sample is written, also
\* none for the routes that were extracted
ParseFailureAborts ==
  seen.bad_at > 0 =>
    /\ pc = "done" /\ outcome = "failed" /\ error = "parse"
    /\ results = Raise /\ rows = <<>> /\ txn = <<>>
    /\ travel_times = pre.travel_times

ParseFailureAbortsWitness ==
  /\ seen.bad_at = 2 /\ seen.n_routes = 2
  /\ outcome = "failed" /\ error = "parse"
  /\ coords.o # Raise /\ coords.d # Raise

\* the values of the i-th route of a well-formed response: "9.9 mi" is 9.9,
\* "1,056.30 mi" is 1056.3
ExpectedSample(i) ==
  IF i % 2 = 1
  THEN [description |-> "I-95", meters |-> 16000, miles |-> [m |-> 99, e |-> 1],
        duration_seconds |-> 1200, duration_static |-> 18, duration_minutes |-> 20]
  ELSE [description |-> "US-1", meters |-> 1700000, miles |-> [m |-> 10563, e |-> 1],
        duration_seconds |-> 61200, duration_static |-> 1005, duration_minutes |-> 1020]

\* C12: a completed invocation whose response had n routes has appended
\* exactly n rows, one per route and in one new batch, with the labels of its
\* direction and the values of the routes
CompletedWritesAllRoutes ==
  outcome = "completed" =>
    LET n == seen.n_routes
        base == Len(pre.travel_times)
    IN /\ n >= 1
       /\ Len(travel_times) = base + n
       /\ SubSeq(travel_times, 1, base) = pre.travel_times
       /\ \A k \in 1..base : travel_times[k].batch_id # batch.id
       /\ \A i \in 1..n :
            LET r == travel_times[base + i] IN
              /\ r.batch_id = batch.id /\ r.batch_ts = batch.ts
              /\ dir = <<"HOME", "WORK">> =>
                   r.origin_label = env.cfg.HOME_LABEL /\ r.dest_label = env.cfg.WORK_LABEL
              /\ dir = <<"WORK", "HOME">> =>
                   r.origin_label = env.cfg.WORK_LABEL /\ r.dest_label = env.cfg.HOME_LABEL
              /\ dir \in {<<"HOME", "WORK">>, <<"WORK", "HOME">>}
              /\ [description |-> r.description, meters |-> r.meters, miles |-> r.miles,
                  duration_seconds |-> r.duration_seconds,
                  duration_static |-> r.duration_static,
                  duration_minutes |-> r.duration_minutes] = ExpectedSample(i)

CompletedWritesAllRoutesWitness ==
  /\ outcome = "completed" /\ dir = <<"WORK", "HOME">>
  /\ seen.n_routes = 2 /\ pre.travel_times # <<>>
  /\ Len(travel_times) = Len(pre.travel_times) + 2

\* C14: when an invocation has ended, by commit, by skip or by an error, no
\* connection and no transaction it opened is still open
ConnectionsReleased ==
  pc = "done" => open_cons = 0 /\ txn = <<>>

\* the latest call of fetch_coords returned coordinates and the row of its
\* label holds the address it was given and the coordinates it returned
HoldsPassedAddress ==
  \E r \in locations :
    /\ r.label = seen.last.label /\ r.address = seen.last.address
    /\ <<r.lat[1], r.lon[1]>> = seen.last.ret[1]

\* C15 as stated: after every fetch_coords call that returns, the stored row
\* of the label holds the address passed to the call
LatestAddressWins ==
  seen.last.ret # Raise => HoldsPassedAddress

\* C15: a fetch_coords call that sent a geocoding request and returned has
\* left the address it was given and the coordinates it returned in the row
\* of its label, also when the row existed with another address; a call that
\* returned stored coordinates has left the row as it was
ResolvedAddressWins ==
  seen.last.ret # Raise =>
    /\ seen.last.requests = 1 => HoldsPassedAddress
    /\ seen.last.requests = 0 =>
         /\ LocationRow(locations, seen.last.label) = seen.last.stored
         /\ Cached(seen.last.stored)
         /\ seen.last.ret = Ok(<<seen.last.stored[1].lat[1], seen.last.stored[1].lon[1]>>)

ResolvedAddressWinsWitness ==
  /\ seen.last.ret # Raise /\ seen.last.requests = 1
  /\ seen.last.stored # <<>> /\ seen.last.stored[1].address # seen.last.address
  /\ HoldsPassedAddress

\* C16: no step of any invocation changes or removes a stored sample; the
\* table only grows at its end
AppendOnly ==
  [][/\ Len(travel_times') >= Len(travel_times)
     /\ SubSeq(travel_times', 1, Len(travel_times)) = travel_times]_vars

AppendOnlyWitness ==
  /\ runs = 2 /\ outcome = "completed"
  /\ pre.travel_times # <<>>
  /\ Len(travel_times) > Len(pre.travel_times)
  /\ SubSeq(travel_times, 1, Len(pre.travel_times)) = pre.travel_times

\* C17: an invocation sends at most one routing request and at most one
\* geocoding request per label, none for a label whose coordinates were
\* stored when it started; after a failed request it has ended, so nothing is
\* sent again; the routing request is sent only when both fetch_coords calls
\* have returned coordinates
OneRequestEach ==
  /\ calls.routes <= 1
  /\ \A l \in Labels :
       /\ calls.geocode[l] <= 1
       /\ Cached(LocationRow(pre.locations, l)) => calls.geocode[l] = 0
  /\ calls.routes = 1 => coords.o # Raise /\ coords.d # Raise
  /\ (seen.geo_fail \/ seen.route_fail) => pc = "done" /\ outcome = "failed"

OneRequestEachWitness ==
  /\ calls.routes = 1 /\ seen.route_fail
  /\ Cached(LocationRow(pre.locations, "Home"))
  /\ calls.geocode = [l \in Labels |-> IF l = "Work" THEN 1 ELSE 0]

\* a fetch_coords call for label l is between its lookup and the response to
\* its geocoding request, in main and in the other process
Waiting(l) ==
  \/ pc = "geocode_origin" /\ Origin(dir[1], env.cfg).label = l
  \/ pc = "geocode_dest" /\ Dest(dir[1], env.cfg).label = l

OtherWaiting(l) ==
  \/ other.pc = "geocode_origin" /\ Origin(other.src, other.cfg).label = l
  \/ other.pc = "geocode_dest" /\ Dest(other.src, other.cfg).label = l

\* no step removes a locations row, and a row for a label that had none
\* appears only with coordinates, written by a fetch_coords call that sent a
\* request
LocationsGrow ==
  /\ \A r \in locations : \E r2 \in locations' : r2.id = r.id /\ r2.label = r.label
  /\ \A r2 \in locations' :
       LocationRow(locations, r2.label) = <<>> =>
         /\ r2.lat # Null /\ r2.lon # Null
         /\ Waiting(r2.label) \/ OtherWaiting(r2.label)

\* C19: no step removes a locations row; a row for a label that had none
\* appears only with coordinates; a row that has a latitude and a longitude
\* is left exactly as it is by every later step, whatever invocation takes it
LocationsStable ==
  [][/\ LocationsGrow
     /\ \A r \in locations : (r.lat # Null /\ r.lon # Null) => r \in locations']_vars

LocationsStableWitness ==
  /\ pre.run = 2 /\ pc = "done" /\ outcome = "completed"
  /\ calls.lookups = 2 /\ calls.geocode = [l \in Labels |-> 0]
  /\ locations = pre.locations
  /\ \E r \in locations :
       /\ r.label = "Home" /\ r.lat # Null /\ r.lon # Null
       /\ r.address # env.cfg.HOME_ADDRESS

\* the shapes the texts of a route are expected to have: digits, in the
\* localized texts also with separators
IsDigits(t) == t # <<>> /\ \A i \in 1..Len(t) : IsDigit(t[i])

IsGrouped(t) ==
  /\ t # <<>> /\ IsDigit(t[1]) /\ IsDigit(t[Len(t)])
  /\ \A i \in 1..Len(t) : IsDigit(t[i]) \/ t[i] = ","

IsDecimal(t) ==
  \/ IsGrouped(t)
  \/ \E k \in 2..(Len(t) - 1) :
       t[k] = "." /\ IsGrouped(SubSeq(t, 1, k - 1)) /\ IsDigits(SubSeq(t, k + 1, Len(t)))

\* "<integer>s"
ShapeSeconds(s) ==
  s # NoText /\ Len(s) >= 2 /\ s[Len(s)] = "s" /\ IsDigits(SubSeq(s, 1, Len(s) - 1))

\* "<integer> min" or "<integer> mins"
ShapeMinutes(s) ==
  /\ s # NoText
  /\ \E k \in 1..Len(s) :
       /\ IsGrouped(SubSeq(s, 1, k))
       /\ SubSeq(s, k + 1, Len(s)) \in {<<" ", "m", "i", "n">>, <<" ", "m", "i", "n", "s">>}

\* "<number> mi"
ShapeMiles(s) ==
  /\ s # NoText
  /\ \E k \in 1..Len(s) :
       IsDecimal(SubSeq(s, 1, k)) /\ SubSeq(s, k + 1, Len(s)) = <<" ", "m", "i">>

WellShaped(r) ==
  /\ r.description # Absent /\ r.distanceMeters # Null
  /\ ShapeSeconds(r.duration) /\ ShapeMiles(r.distance)
  /\ ShapeMinutes(r.staticDuration) /\ ShapeMinutes(r.duration_text)

\* C20: _extract_route_info raises for every route in which a field is absent
\* or does not have its expected shape
ExtractRejectsMalformed ==
  (pc = "extracted" /\ ~WellShaped(route)) => results = Raise

\* the limit of the latest request, when it is a non-negative integer
LimitGiven == request.args.limit # NoText /\ isdigit(strip(request.args.limit))

LimitValue == DigitsValue(strip(request.args.limit))

\* the ids the latest request is answered with when it has no limit
Unlimited ==
  LET a == [request.args EXCEPT !.limit = NoText]
      res == IF request.endpoint = "index"
             THEN index_rows(travel_times, utc, a) ELSE data_json_rows(travel_times, utc, a)
  IN [i \in 1..Len(res[1]) |-> res[1][i].id]

\* C13: the rows of an answer are in ascending order of ts, and with a limit
\* N they are the last min(N, number of matching rows) of the ordered (and
\* filtered) list, so at most N
ReadContract ==
  (request.endpoint # None /\ reply.status = 200) =>
    /\ \A i \in 1..(Len(reply.rows) - 1) : reply.rows[i].ts <= reply.rows[i + 1].ts
    /\ LimitGiven =>
         LET n == IF LimitValue < Len(Unlimited) THEN LimitValue ELSE Len(Unlimited)
         IN /\ reply.ids = SubSeq(Unlimited, Len(Unlimited) - n + 1, Len(Unlimited))
            /\ Len(reply.rows) <= LimitValue

\* C18: a read by batch identifier answered at any point of the writing of
\* that batch, also between two INSERTs and just before the COMMIT, and after
\* a rollback, has none of the rows of the batch or all of them
BatchSeenWhole ==
  request.endpoint = "batch" =>
    /\ request.args.batch_id = batch.id /\ reply.status = 200
    /\ \A i \in 1..Len(reply.batches) : reply.batches[i] = batch.id
    /\ Len(reply.rows) \in {0, Len(rows)}
    /\ outcome = "completed" => Len(reply.rows) = Len(rows)

BatchSeenWholeWitness ==
  /\ request.endpoint = "batch" /\ request.args.batch_id = batch.id
  /\ pc = "executemany" /\ Len(rows) = 2 /\ Len(txn) = 1
  /\ pre.run = 2 /\ pre.travel_times # <<>>
  /\ reply.status = 200 /\ reply.rows = <<>>

\* every request and every statement of the invocation has succeeded so far
AllSucceeded ==
  ~seen.geo_fail /\ ~seen.route_fail /\ seen.bad_at = 0 /\ ~seen.store_fail

\* the batches of the rows added since the invocation started
NewBatches ==
  {travel_times[k].batch_id : k \in (Len(pre.travel_times) + 1)..Len(travel_times)}

\* the outcome of an invocation and what it stands for
Outcomes ==
  /\ pc = "idle" => outcome = "none"
  /\ pc \notin {"idle", "done"} =>
       outcome = "running" /\ travel_times = pre.travel_times
  /\ pc = "done" => outcome \in {"skipped", "failed", "completed"}
  /\ outcome = "skipped" =>
       /\ dir[1] = None /\ error = None /\ calls = NoCalls
       /\ locations = pre.locations /\ travel_times = pre.travel_times
  /\ outcome = "failed" =>
       error # None /\ ~AllSucceeded /\ travel_times = pre.travel_times
  /\ outcome = "completed" =>
       /\ error = None /\ AllSucceeded
       /\ SubSeq(travel_times, 1, Len(pre.travel_times)) = pre.travel_times
       /\ NewBatches = {batch.id}
       /\ \A k \in 1..Len(pre.travel_times) : pre.travel_times[k].batch_id # batch.id

\* C21: an invocation has one outcome, skipped (no call, nothing written),
\* failed (an error, no new batch) or completed (one new batch), which stays
\* once it is reached; an invocation that has started its steps always
\* reaches an outcome, and reaches completed when all its steps succeed
EveryInvocationEnds ==
  /\ []Outcomes
  /\ [][(pc = "done" /\ runs' = runs) =>
          (pc' = "done" /\ outcome' = outcome /\ travel_times' = travel_times)]_vars
  /\ (outcome = "running") ~>
       (pc = "done" /\ outcome \in {"failed", "completed"}
          /\ (AllSucceeded => outcome = "completed" /\ NewBatches = {batch.id}))

EveryInvocationEndsWitness ==
  /\ pc = "done" /\ outcome = "completed" /\ AllSucceeded
  /\ env.DIRECTION # <<>> /\ ~_in_window(env.now, dtime(5, 30), dtime(10, 30))
  /\ seen.n_routes = 1 /\ NewBatches = {batch.id}
  /\ runs = 2 /\ calls.routes = 1

====
